---- MODULE Spec2Model ----
(***************************************************************************)
(* A model of upset: the filesystem reconciliation primitives of           *)
(* upset.lib.Fs (SpecFs) and the plan run of upset.upset.Upset (SpecRun).  *)
(*                                                                         *)
(* Python strings are sequences of one-character strings; a replacement    *)
(* field "{name}" of str.format and a placeholder "$name" of               *)
(* string.Template are single tokens, so formatting and substitution are   *)
(* computed and string equality is sequence equality.                      *)
(***************************************************************************)
EXTENDS Integers, Sequences, FiniteSets, TLC

\* ------------------------------------------------------------------ bounds
\* Backup names modelled for a path: P~, P~1~, ..., P~MaxBackups~.
MaxBackups == 2
\* Clock readings 0..MaxTime (st_mtime values).
MaxTime == 2
\* Number of Fs calls in one behaviour.
MaxOps == 2

\* Tasks in a plan file.
MaxTasks == 2
\* The number of permission strings in the argument of Fs.ensure_path, not
\* counting an empty one before a leading "/".
MaxDescriptors == 2
\* The number of items of a list or a dict given to expand_task_leaves.
MaxItems == 2

VARIABLES
    fs,      \* path -> entry: the filesystem the plugin works on
    now,     \* the clock reading a write stamps on a file
    last,    \* the last Fs call: name, arguments, filesystem before, outcome,
             \* whether it repeats the call before it and how that one ended
    nops     \* number of Fs calls made

fsVars == <<fs, now, last, nops>>

VARIABLES
    planFile,      \* the plan file given to Upset.run
    pc,            \* the statement of Upset.run that is executed next
    plan,          \* the Task objects read_plan returned, as they are now
    ti,            \* index in plan of the task of the outer loop
    vi,            \* index in task.foreach of the iteration of the inner loop
    expanded,      \* expanded_task, and whether it is the task object itself
    password,      \* the password read by getpass
    temp_dir,      \* the local variable temp_dir of Upset.run
    made,          \* whether mktemp has created a directory on the target
    sent_plugins,  \* Upset._sent_plugins
    sent_files,    \* Upset._sent_files
    trace,         \* the commands run so far, in order, with their outcome
    err,           \* the exception that ended the try block, or "none"
    errAt          \* the statement that raised it

runVars == <<planFile, pc, plan, ti, vi, expanded, password, temp_dir, made,
             sent_plugins, sent_files, trace, err, errAt>>

VARIABLES
    tree,          \* the leaf given to Upset.expand_task_leaves
    bindings,      \* the var given with it
    returned       \* what the call has returned or raised

leafVars == <<tree, bindings, returned>>

VARIABLES
    call           \* two calls of a helper of lib: arguments and values

helperVars == <<call>>

\* ------------------------------------------------------------ filesystem
\* The path under reconciliation, another file (a symlink target), the
\* template source and the directory that holds them all.
P == "P"
X == "X"
T == "T"
D == "D"

\* str(path) + suffix, lib.py:66-67
BackupPath(path, number) ==
    path \o (IF number > 0 THEN "~" \o ToString(number) \o "~" ELSE "~")

BackupNames(path) == {BackupPath(path, n) : n \in 0..MaxBackups}

Paths == {P, X, T, D} \cup BackupNames(P)

Root == [owner |-> "root", group |-> "root", mode |-> "644"]

None == [kind |-> "none"]
File(c, m, pm) == [kind |-> "file", content |-> c, mtime |-> m, perm |-> pm]
Dir(e, m, pm) == [kind |-> "dir", empty |-> e, mtime |-> m, perm |-> pm]
Link(t) == [kind |-> "link", target |-> t]

\* pathlib.Path.resolve: follow symlinks; a dangling link resolves to the
\* name it points at.
RECURSIVE ResolveN(_, _, _)
ResolveN(f, p, fuel) ==
    IF p \in DOMAIN f /\ f[p].kind = "link" /\ fuel > 0
    THEN ResolveN(f, f[p].target, fuel - 1)
    ELSE p

Resolve(f, p) == ResolveN(f, p, 2)

\* os.stat (follows symlinks): the entry, or None when nothing is there.
Stat(f, p) ==
    LET r == Resolve(f, p)
    IN IF r \in DOMAIN f /\ f[r].kind # "link" THEN f[r] ELSE None

\* pathlib.Path.exists / is_file / is_dir follow symlinks; is_symlink does not.
Exists(f, p) == Stat(f, p).kind # "none"
IsFile(f, p) == Stat(f, p).kind = "file"
IsDir(f, p) == Stat(f, p).kind = "dir"
IsSymlink(f, p) == f[p].kind = "link"

\* The outcome of a call: the filesystem it leaves, how it ended ("ok" or
\* the exception that left it) and the system calls that succeeded, in order.
Outcome(f, res, log) == [fs |-> f, res |-> res, log |-> log]

\* os.rename(src, dst): moves the entry itself (a symlink is not followed);
\* an existing non-directory dst is replaced; a directory cannot replace a
\* non-directory (ENOTDIR) nor a non-directory a directory (EISDIR).
Rename(f, src, dst, fault) ==
    IF fault = "rename" THEN Outcome(f, "OSError", <<>>)
    ELSE IF f[src].kind = "dir" /\ f[dst].kind \notin {"none", "dir"}
    THEN Outcome(f, "OSError", <<>>)
    ELSE IF f[src].kind # "dir" /\ f[dst].kind = "dir"
    THEN Outcome(f, "OSError", <<>>)
    ELSE Outcome([f EXCEPT ![dst] = f[src], ![src] = None], "ok",
                 <<<<"rename", src, dst>>>>)

\* A backup that moves nothing.
backup_skipped(f, path, number, fault) == Outcome(f, "ok", <<>>)

\* Fs.backup, lib.py:53-77
RECURSIVE backup(_, _, _, _)
backup(f, path, number, fault) ==
    IF ~(IsFile(f, path) \/ IsDir(f, path))
    THEN Outcome(f, "ok", <<>>)
    ELSE LET backup_path == BackupPath(path, number)
         IN IF Exists(f, backup_path)
            THEN backup(f, path, number + 1, fault)
            ELSE LET r == Rename(f, path, backup_path, fault)
                 IN IF r.res = "ok" THEN r
                    ELSE Outcome(f, "UpsetFsError", <<>>)

\* The recursion of Fs.backup stays within the modelled backup names.
BackupInBounds(f, path) ==
    \E n \in 0..MaxBackups : ~Exists(f, BackupPath(path, n))

\* A removal that does not look whether the path exists: unlink of nothing
\* fails.
remove_rest_unchecked(b, path, fault) ==
    IF b.res # "ok" THEN b
    ELSE IF b.fs[path].kind = "none" THEN Outcome(b.fs, "UpsetFsError", b.log)
    ELSE Outcome([b.fs EXCEPT ![path] = None], "ok",
                 Append(b.log, <<"unlink", path, "">>))

\* Fs.remove from "the file might have been moved" on, lib.py:93-107; b is
\* the outcome of the backup.
remove_rest(b, path, fault) ==
    LET g == b.fs
    IN IF b.res # "ok" THEN b
       ELSE IF ~Exists(g, path) THEN b
       ELSE IF fault = "unlink" THEN Outcome(g, "UpsetFsError", b.log)
       ELSE IF IsSymlink(g, path)
       THEN Outcome([g EXCEPT ![path] = None], "ok",
                    Append(b.log, <<"unlink", path, "">>))
       ELSE IF IsDir(g, path)
       THEN IF g[path].empty
            THEN Outcome([g EXCEPT ![path] = None], "ok",
                         Append(b.log, <<"rmdir", path, "">>))
            ELSE Outcome(g, "UpsetFsError", b.log)
       ELSE Outcome([g EXCEPT ![path] = None], "ok",
                    Append(b.log, <<"unlink", path, "">>))

\* Fs.remove, lib.py:80-107
remove(f, path, bk, fault) ==
    remove_rest(IF bk THEN backup(f, path, 0, fault)
                ELSE Outcome(f, "ok", <<>>),
                path, fault)

\* Names pwd.getpwnam / grp.getgrnam resolve.
KnownNames == {"root", "u"}

\* An ensure_perms that takes a symlink for what it points at.
perms_follow_symlink(f, path) == FALSE

\* if path.is_symlink(), lib.py:337
perms_on_symlink(f, path) == IsSymlink(f, path)

\* A '.' that stands for what the path itself has.
own_perm(f, path) == Stat(f, path).perm

\* path.resolve().parent, lib.py:343: the paths of the tree under "/" have
\* their parent there ("/" is its own), every other modelled path lies in D.
Parent(path) ==
    CASE path = "/a/b" -> "/a"
      [] path \in {"/", "/a", "/b"} -> "/"
      [] OTHER -> D

\* parent.owner(), parent.group() and the mode of parent.lstat() for
\* parent = path.resolve().parent, lib.py:343-361
parent_perm(f, path) == f[Parent(path)].perm

\* Fs.ensure_perms, lib.py:301-390.  permissions is the permission string
\* split at ",": <<"-">>, <<".">>, <<owner, group, mode>>; log0 holds the
\* system calls of the caller so far.
ensure_perms(f, path, permissions, fault, log0) ==
    IF permissions \in {<<"-">>, <<"-", "-", "-">>}
    THEN Outcome(f, "ok", log0)
    ELSE IF perms_on_symlink(f, path) THEN Outcome(f, "ok", log0)
    ELSE IF permissions # <<".">> /\ Len(permissions) # 3
    THEN Outcome(f, "UpsetFsError", log0)
    ELSE IF Stat(f, path).kind = "none" THEN Outcome(f, "OSError", log0)
    ELSE
    LET parent == parent_perm(f, path)
        tgt == Resolve(f, path)
        dot == permissions = <<".">>
        owner == IF dot \/ permissions[1] = "." THEN parent.owner
                 ELSE permissions[1]
        group == IF dot \/ permissions[2] = "." THEN parent.group
                 ELSE permissions[2]
        mode == IF dot \/ permissions[3] = "." THEN parent.mode
                ELSE permissions[3]
        cur == f[tgt].perm
        chmod == mode \notin {cur.mode, "-"}
        chown == owner \notin {cur.owner, "-"}
        chgrp == group \notin {cur.group, "-"}
        f1 == IF chmod THEN [f EXCEPT ![tgt].perm.mode = mode] ELSE f
        f2 == IF chown THEN [f1 EXCEPT ![tgt].perm.owner = owner] ELSE f1
        f3 == IF chgrp THEN [f2 EXCEPT ![tgt].perm.group = group] ELSE f2
        log1 == IF chmod THEN Append(log0, <<"chmod", path, mode>>) ELSE log0
        log2 == IF chown THEN Append(log1, <<"chown", path, owner>>) ELSE log1
        log3 == IF chgrp THEN Append(log2, <<"chgrp", path, group>>) ELSE log2
    IN IF chmod /\ fault = "chmod" THEN Outcome(f, "UpsetFsError", log0)
       ELSE IF chown /\ owner \notin KnownNames
       THEN Outcome(f1, "KeyError", log1)
       ELSE IF chown /\ fault = "chown"
       THEN Outcome(f1, "UpsetFsError", log1)
       ELSE IF chgrp /\ group \notin KnownNames
       THEN Outcome(f2, "KeyError", log2)
       ELSE IF chgrp /\ fault = "chown"
       THEN Outcome(f2, "UpsetFsError", log2)
       ELSE Outcome(f3, "ok", log3)

\* The placeholder "$name" of string.Template, one token of a text.
Placeholder(n) == "$" \o n

\* string.Template(text).safe_substitute(substitutes): a placeholder whose
\* name is in substitutes is replaced, any other is left verbatim.
RECURSIVE safe_substitute(_, _)
safe_substitute(text, substitutes) ==
    IF text = <<>> THEN <<>>
    ELSE LET c == Head(text)
             rest == safe_substitute(Tail(text), substitutes)
             named == {n \in DOMAIN substitutes : c = Placeholder(n)}
         IN IF named # {}
            THEN substitutes[CHOOSE n \in named : TRUE] \o rest
            ELSE <<c>> \o rest

\* Owner, group and mode of a file the plugin (run by sudo as root) creates.
NewFilePerm == Root

\* Fs.ensure_file from "remove or backup the file if it exists" on,
\* lib.py:156-177; r is the outcome of Fs.remove(path, backup).  write_text
\* and shutil.copy follow a symlink left at path.
ensure_file_replace(r, path, template, permissions, clock, fault) ==
    LET g == r.fs
        dst == Resolve(g, path)
        src == Stat(g, template.file)
        subst == DOMAIN template.substitutes # {}
        new == IF subst
               THEN File(safe_substitute(src.content, template.substitutes),
                         clock, NewFilePerm)
               ELSE File(src.content, clock,
                         [NewFilePerm EXCEPT !.mode = src.perm.mode])
    IN IF r.res # "ok" THEN r
       ELSE IF src.kind # "file" \/ fault = "write"
       THEN Outcome(g, IF subst THEN "UpsetFsError" ELSE "OSError", r.log)
       ELSE ensure_perms([g EXCEPT ![dst] = new], path, permissions, fault,
                         Append(r.log, <<"write", dst, "">>))

\* A file that is never kept as it is.
never_kept(f, path, mode) == FALSE

\* elif path.is_file(): if mode == 'asis', lib.py:141-142
kept_as_is(f, path, mode) == IsFile(f, path) /\ mode = "asis"

\* A mode test that sends every mode to the comparison of the times.
always_compares(mode) == TRUE

\* if mode != 'force', lib.py:145
compares_mtime(mode) == mode # "force"

\* Fs.ensure_file, lib.py:110-177
ensure_file(f, path, template, permissions, mode, bk, clock, fault) ==
    IF kept_as_is(f, path, mode)
    THEN Outcome(f, "ok", <<>>)
    ELSE IF /\ IsFile(f, path) /\ compares_mtime(mode)
            /\ ~Exists(f, template.file)
    THEN Outcome(f, "UpsetFsError", <<>>)
    ELSE IF /\ IsFile(f, path) /\ compares_mtime(mode)
            /\ Stat(f, path).mtime > Stat(f, template.file).mtime
    THEN Outcome(f, "ok", <<>>)
    ELSE ensure_file_replace(remove(f, path, bk, fault), path, template,
                             permissions, clock, fault)

\* A comparison that never finds the symlink in place.
never_linked(f, path, target) == FALSE

\* path.exists() and target.exists() and path.resolve().samefile(target),
\* lib.py:199-200
already_linked(f, path, target) ==
    Exists(f, path) /\ Exists(f, target) /\ Resolve(f, path) = Resolve(f, target)

\* An ensure_link that creates no symlink.
symlink_skipped(f, path, target, fault, log0) == Outcome(f, "ok", log0)

\* path.symlink_to(target), lib.py:208: fails when something is at path.
symlink_to(f, path, target, fault, log0) ==
    IF fault = "symlink" \/ f[path].kind # "none"
    THEN Outcome(f, "OSError", log0)
    ELSE Outcome([f EXCEPT ![path] = Link(target)], "ok",
                 Append(log0, <<"symlink", path, target>>))

\* Fs.ensure_link, lib.py:180-208
ensure_link(f, path, target, bk, fault) ==
    IF IsSymlink(f, path)
    THEN IF already_linked(f, path, target) THEN Outcome(f, "ok", <<>>)
         ELSE IF fault = "unlink" THEN Outcome(f, "OSError", <<>>)
         ELSE symlink_to([f EXCEPT ![path] = None], path, target, fault,
                         <<<<"unlink", path, "">>>>)
    ELSE IF Exists(f, path)
    THEN LET r == remove(f, path, bk, fault)
         IN IF r.res # "ok" THEN r
            ELSE symlink_to(r.fs, path, target, fault, r.log)
    ELSE symlink_to(f, path, target, fault, <<>>)

\* Owner, group and mode of a directory the plugin creates.
NewDirPerm == [Root EXCEPT !.mode = "755"]

\* Fs.ensure_dir from Fs.remove(path, backup) on, lib.py:236-245; r is the
\* outcome of the removal.
ensure_dir_create(r, path, permissions, clock, fault) ==
    IF r.res # "ok" THEN r
    ELSE IF fault = "mkdir" \/ r.fs[path].kind # "none"
    THEN Outcome(r.fs, "UpsetFsError", r.log)
    ELSE ensure_perms([r.fs EXCEPT ![path] = Dir(TRUE, clock, NewDirPerm)],
                      path, permissions, fault,
                      Append(r.log, <<"mkdir", path, "">>))

never_a_directory(f, path) == FALSE

\* The test Fs.ensure_dir starts with, lib.py:231: path is a directory and
\* not a symlink to one.
is_real_dir(f, path) == ~IsSymlink(f, path) /\ IsDir(f, path)

\* Fs.ensure_dir, lib.py:211-245
ensure_dir(f, path, permissions, bk, clock, fault) ==
    IF is_real_dir(f, path)
    THEN ensure_perms(f, path, permissions, fault, <<>>)
    ELSE ensure_dir_create(remove(f, path, bk, fault), path, permissions,
                           clock, fault)

\* "/".join(parts)
RECURSIVE join_slash(_)
join_slash(parts) ==
    IF parts = <<>> THEN ""
    ELSE IF Len(parts) = 1 THEN parts[1]
    ELSE parts[1] \o "/" \o join_slash(Tail(parts))

\* str.split("/") of a string given as its "/" and the pieces between them;
\* piece is the piece read so far.
RECURSIVE split_slash(_, _)
split_slash(s, piece) ==
    IF s = <<>> THEN <<piece>>
    ELSE IF Head(s) = "/" THEN <<piece>> \o split_slash(Tail(s), "")
    ELSE split_slash(Tail(s), piece \o Head(s))

\* permissions.split(","), lib.py:363, of the permission strings in use.
split_comma(permissions) ==
    IF permissions = "u,u,755" THEN <<"u", "u", "755">> ELSE <<permissions>>

\* A check of the two lengths that never fails.
lengths_never_differ(permissions, parts) == FALSE

\* len(permissions) != len(path.parts), lib.py:285
lengths_differ(permissions, parts) == Len(permissions) # Len(parts)

\* The loop of Fs.ensure_path, lib.py:289-298, from the k-th part on (the
\* code's i is k + 1); permissions is what is left of the list.  Every call
\* of Fs.ensure_dir is logged with its path and its permission string,
\* followed by the system calls it makes.
RECURSIVE ensure_path_loop(_, _, _, _, _, _, _, _)
ensure_path_loop(f, parts, k, permissions, bk, clock, fault, log) ==
    IF k > Len(parts) THEN Outcome(f, "ok", log)
    ELSE IF permissions = <<>> THEN Outcome(f, "IndexError", log)
    ELSE IF parts[k] = "/"
    THEN ensure_path_loop(f, parts, k + 1, Tail(permissions), bk, clock,
                          fault, log)
    ELSE LET path == "/" \o join_slash(SubSeq(parts, 2, k))
             r == ensure_dir(f, path, split_comma(Head(permissions)), bk,
                             clock, fault)
             log1 == (log \o <<<<"ensure_dir", path, Head(permissions)>>>>)
                     \o r.log
         IN IF r.res # "ok" THEN Outcome(r.fs, r.res, log1)
            ELSE ensure_path_loop(r.fs, parts, k + 1, Tail(permissions), bk,
                                  clock, fault, log1)

\* Fs.ensure_path, lib.py:248-298; parts is path.parts.
ensure_path(f, parts, path_permissions, bk, clock, fault) ==
    LET permissions == split_slash(path_permissions, "")
    IN IF lengths_differ(permissions, parts)
       THEN Outcome(f, "UpsetFsError", <<>>)
       ELSE ensure_path_loop(f, parts, 1, permissions, bk, clock, fault, <<>>)

\* One token of a regular expression against one character: "." is any
\* character but a newline, the escape \n is a newline, any other token is
\* the character itself.
match_token(token, c) ==
    CASE token = "." -> c # "\n"
      [] token = "\\n" -> c = "\n"
      [] OTHER -> token = c

\* A search that finds nothing.
never_found(haystack, needle) == FALSE

\* re.search(needle, haystack), lib.py:424: needle matches somewhere in
\* haystack (the empty needle matches everywhere).
Contains(haystack, needle) ==
    \E i \in 0..(Len(haystack) - Len(needle)) :
        \A k \in 1..Len(needle) : match_token(needle[k], haystack[i + k])

\* A replacement that is taken as it is written.
template_verbatim(repl) == repl

\* What re.sub makes of its replacement string: the escape \n becomes a
\* newline, any other token stands for itself.
expand_template(repl) ==
    [k \in 1..Len(repl) |-> IF repl[k] = "\\n" THEN "\n" ELSE repl[k]]

\* re.sub from position i of string on, for a pattern of character tokens:
\* every match, from the left and without overlap, is replaced by new.
RECURSIVE re_sub_from(_, _, _, _)
re_sub_from(pattern, new, string, i) ==
    IF i > Len(string) THEN (IF pattern = <<>> THEN new ELSE <<>>)
    ELSE IF pattern = <<>>
    THEN (new \o <<string[i]>>) \o re_sub_from(pattern, new, string, i + 1)
    ELSE IF /\ i + Len(pattern) - 1 <= Len(string)
            /\ \A k \in 1..Len(pattern) :
                  match_token(pattern[k], string[i + k - 1])
    THEN new \o re_sub_from(pattern, new, string, i + Len(pattern))
    ELSE <<string[i]>> \o re_sub_from(pattern, new, string, i + 1)

\* The default of insert_at, r'\Z': the end of the string.
EndOfString == <<"\\Z">>

\* re.sub(pattern, repl, string), lib.py:433
re_sub(pattern, repl, string) ==
    IF pattern = EndOfString THEN string \o expand_template(repl)
    ELSE re_sub_from(pattern, expand_template(repl), string, 1)

\* The Python values True and False where a str is expected (a str is a
\* sequence of one-character tokens).
PyBool(b) == <<"bool", IF b THEN "True" ELSE "False">>

is_str(value) == value \notin {PyBool(TRUE), PyBool(FALSE)}

\* if needle == '': needle = text, lib.py:421-422
needle_or_text(needle, text) == IF needle = <<>> THEN text ELSE needle

\* Fs.ensure_in_file from "if backup" on, lib.py:428-438; b is the outcome
\* of the backup and content the new content of the file.
ensure_in_file_write(b, path, content, clock, fault) ==
    LET g == b.fs
        dst == Resolve(g, path)
        perm == IF g[dst].kind = "file" THEN g[dst].perm ELSE NewFilePerm
    IN IF b.res # "ok" THEN b
       ELSE IF fault = "write" \/ g[dst].kind = "dir"
       THEN Outcome(g, "UpsetFsError", b.log)
       ELSE Outcome([g EXCEPT ![dst] = File(content, clock, perm)],
                    "ok", Append(b.log, <<"write", dst, "">>))

\* Fs.ensure_in_file from read_text on, lib.py:414-438; f is the filesystem
\* after the touch of a missing file.
ensure_in_file_read(f, path, text, insert_at, needle, bk, clock, fault, log0) ==
    LET haystack == Stat(f, path).content
    IN IF ~IsFile(f, path) THEN Outcome(f, "UpsetFsError", log0)
       ELSE IF ~is_str(needle_or_text(needle, text))
       THEN Outcome(f, "TypeError", log0)
       ELSE IF Contains(haystack, needle_or_text(needle, text))
       THEN Outcome(f, "ok", log0)
       ELSE ensure_in_file_write(
                IF bk
                THEN LET b == backup(f, path, 0, fault)
                     IN Outcome(b.fs, b.res, log0 \o b.log)
                ELSE Outcome(f, "ok", log0),
                path, re_sub(insert_at, text, haystack), clock, fault)

\* Fs.ensure_in_file, lib.py:392-438
ensure_in_file(f, path, text, insert_at, needle, bk, clock, fault) ==
    IF Exists(f, path)
    THEN ensure_in_file_read(f, path, text, insert_at, needle, bk, clock,
                             fault, <<>>)
    ELSE IF fault = "touch" THEN Outcome(f, "UpsetFsError", <<>>)
    ELSE ensure_in_file_read(
             [f EXCEPT ![Resolve(f, path)] = File(<<>>, clock, NewFilePerm)],
             path, text, insert_at, needle, bk, clock, fault,
             <<<<"touch", Resolve(f, path), "">>>>)

\* No call of Upset.expand_task_leaves on its own is under way.
LeafIdle == tree = <<>> /\ bindings = <<>> /\ returned = <<>>

\* No helper of lib is called on its own.
NoCall == [fn |-> "none", args |-> <<>>, values |-> <<>>]
HelperIdle == call = NoCall

\* No run of Upset is under way (the behaviours of SpecFs).
RunIdle ==
    /\ planFile = "" /\ pc = "idle" /\ plan = <<>> /\ ti = 0 /\ vi = 0
    /\ expanded = "" /\ password = "" /\ temp_dir = "" /\ made = FALSE
    /\ sent_plugins = <<>> /\ sent_files = <<>> /\ trace = <<>>
    /\ err = "none" /\ errAt = ""

\* ------------------------------------------------------- Fs: the machine
\* A behaviour starts from a filesystem a target machine can hold and applies
\* one subtask of a plan to it, again each time the plan is run (MaxOps
\* times), while time passes.
EmptyMap == [n \in {} |-> <<>>]

TemplateText == <<"h", Placeholder("u"), Placeholder("g")>>
OldText == <<"o">>

Substitutes == {EmptyMap, "u" :> <<"a">>}
Permissions == {<<".">>}
Modes == {"asis", "force", "update"}
Faults == {"none", "rename", "unlink", "write", "chmod"}

NoArgs == [template |-> [file |-> T, substitutes |-> EmptyMap],
           permissions |-> <<"-">>, mode |-> "", backup |-> FALSE,
           target |-> "", text |-> <<>>, insert_at |-> <<>>,
           needle |-> <<>>, parts |-> <<>>, path_permissions |-> <<>>]

\* Modification times of the files found at the start; the clock then reads 1.
OldTimes == {0, 1}

\* What a backup name of P can hold at the start: nothing, an earlier backup
\* of a file, or an earlier backup of a symlink to X (Fs.backup moves a
\* symlink whose target is a file, lib.py:63; here at P~ only); X may have
\* been removed since.
\* Names after the first two are free, so that Fs.backup finds a name.
InitFs ==
    /\ now = 1
    /\ \E p \in {None, Dir(TRUE, 0, Root), Dir(FALSE, 0, Root), Link(X),
                 Link(T)}
                \cup {File(OldText, m, Root) : m \in OldTimes},
          x \in {None, File(<<"x">>, 0, Root)},
          t \in {None, Dir(TRUE, 0, Root)}
                \cup {File(TemplateText, m, [Root EXCEPT !.mode = "600"])
                      : m \in OldTimes},
          b \in [{BackupPath(P, 0), BackupPath(P, 1)} ->
                    {None, File(<<"b">>, 0, Root), Link(X)}] :
          /\ b[BackupPath(P, 1)].kind # "link"
          /\ fs = [q \in Paths |->
                     IF q = P THEN p
                     ELSE IF q = X THEN x
                     ELSE IF q = T THEN t
                     ELSE IF q = D
                     THEN Dir(FALSE, 0,
                              [owner |-> "u", group |-> "u", mode |-> "700"])
                     ELSE IF q \in DOMAIN b THEN b[q]
                     ELSE None]
    /\ last = [op |-> "none", path |-> P, args |-> NoArgs, fault |-> "none",
               res |-> "ok",
               pre |-> fs, log |-> <<>>, again |-> FALSE, before |-> "ok"]
    /\ nops = 0
    /\ RunIdle
    /\ LeafIdle
    /\ HelperIdle

\* The call op(path, args) is made and ends as r, with a system call of the
\* kind fault failing where the call makes one (fault is "none" when the
\* call makes no such system call); a call after the first one repeats the
\* call before it.
Called(op, path, args, fault, r, r0) ==
    LET out == r
    IN /\ nops < MaxOps
       /\ nops > 0 => last.op = op /\ last.path = path /\ last.args = args
       /\ fault # "none" => out # r0
       /\ fs' = out.fs
       /\ last' = [op |-> op, path |-> path, args |-> args, fault |-> fault,
                   res |-> out.res, pre |-> fs, log |-> out.log,
                   again |-> nops > 0, before |-> last.res]
       /\ nops' = nops + 1
       /\ UNCHANGED now
       /\ UNCHANGED <<runVars, leafVars, helperVars>>

\* A plugin calls Fs.backup(P).
Backup ==
    /\ BackupInBounds(fs, P)
    /\ \E fault \in {"none", "rename"} :
          Called("backup", P, NoArgs, fault, backup(fs, P, 0, fault),
                 backup(fs, P, 0, "none"))

\* A plugin calls Fs.remove(path, backup).
Remove ==
    /\ BackupInBounds(fs, P)
    /\ \E path \in {P, X}, bk \in BOOLEAN,
          fault \in {"none", "rename", "unlink"} :
          /\ path = X => ~bk
          /\ Called("remove", path, [NoArgs EXCEPT !.backup = bk], fault,
                    remove(fs, path, bk, fault), remove(fs, path, bk, "none"))

\* A plugin calls Fs.ensure_file(P, Template(T, substitutes), permissions,
\* mode, backup).
EnsureFile ==
    /\ BackupInBounds(fs, P)
    /\ \E substitutes \in IF nops > 0 THEN {last.args.template.substitutes}
                          ELSE Substitutes,
          permissions \in Permissions,
          mode \in IF nops > 0 THEN {last.args.mode} ELSE Modes,
          bk \in IF nops > 0 THEN {last.args.backup} ELSE BOOLEAN,
          fault \in Faults :
          LET template == [file |-> T, substitutes |-> substitutes]
          IN Called("ensure_file", P,
                    [NoArgs EXCEPT !.template = template,
                                   !.permissions = permissions,
                                   !.mode = mode, !.backup = bk],
                    fault,
                    ensure_file(fs, P, template, permissions, mode, bk, now,
                                fault),
                    ensure_file(fs, P, template, permissions, mode, bk, now,
                                "none"))

\* Time passes between two runs of the plan (of the subtask that compares
\* modification times; no other call reads a time).
Tick ==
    /\ nops > 0 /\ nops < MaxOps
    /\ last.op = "ensure_file"
    /\ now < MaxTime
    /\ now' = now + 1
    /\ UNCHANGED <<fs, last, nops>>
    /\ UNCHANGED <<runVars, leafVars, helperVars>>

\* A plugin calls Fs.ensure_link(P, target, backup).
EnsureLink ==
    /\ BackupInBounds(fs, P)
    /\ \E target \in {X, T}, bk \in BOOLEAN,
          fault \in {"none", "rename", "unlink", "symlink"} :
          Called("ensure_link", P,
                 [NoArgs EXCEPT !.target = target, !.backup = bk], fault,
                 ensure_link(fs, P, target, bk, fault),
                 ensure_link(fs, P, target, bk, "none"))

\* Permission strings, split at ",": leave as is, as the parent, single
\* fields, names the system does not know, a malformed one.
PermStrings == {<<"-">>, <<".">>, <<"u", "-", "-">>, <<"-", ".", "600">>,
                <<"nobody", "-", "600">>, <<"u", "nogroup", ".">>, <<"u", "u">>}

\* A plugin calls Fs.ensure_dir(P, permissions, backup).
EnsureDir ==
    /\ BackupInBounds(fs, P)
    /\ \E permissions \in {<<"-">>, <<".">>}, bk \in BOOLEAN,
          fault \in {"none", "rename", "unlink", "mkdir"} :
          Called("ensure_dir", P,
                 [NoArgs EXCEPT !.permissions = permissions, !.backup = bk],
                 fault,
                 ensure_dir(fs, P, permissions, bk, now, fault),
                 ensure_dir(fs, P, permissions, bk, now, "none"))

\* Texts to ensure: one that OldText holds, one that no file holds, and
\* one (a newline and "n", written r'\nn') with an escape.
Texts == {<<"o">>, <<"n">>, <<"\\n", "n">>}

\* Text, insert_at and needle of a call: each text at the end of the file
\* (the defaults), "n" in place of every "o", and "n" at the end unless the
\* file holds any character.
InFileArgs ==
    {[NoArgs EXCEPT !.text = text, !.insert_at = EndOfString] :
        text \in Texts}
    \cup {[NoArgs EXCEPT !.text = <<"n">>, !.insert_at = <<"o">>],
          [NoArgs EXCEPT !.text = <<"n">>, !.insert_at = EndOfString,
                         !.needle = <<".">>]}

\* A plugin calls Fs.ensure_in_file(P, text, insert_at, needle, backup),
\* with the arguments of the call before when there was one.
EnsureInFile ==
    /\ BackupInBounds(fs, P)
    /\ \E args \in IF nops > 0 THEN {[last.args EXCEPT !.backup = FALSE]}
                   ELSE InFileArgs,
          bk \in IF nops > 0 THEN {last.args.backup} ELSE BOOLEAN,
          fault \in {"none", "rename", "write", "touch"} :
          Called("ensure_in_file", P, [args EXCEPT !.backup = bk], fault,
                 ensure_in_file(fs, P, args.text, args.insert_at, args.needle,
                                bk, now, fault),
                 ensure_in_file(fs, P, args.text, args.insert_at, args.needle,
                                bk, now, "none"))

\* The paths plugin runs the subtask {ensure: in_file, path: P, text,
\* insert_at, backup}, plugins/paths.py:251-263: an insert_at that is
\* missing or '' becomes r'\Z', and Fs.ensure_in_file gets the path, the
\* text, insert_at and the backup flag as its four positional arguments
\* (path, text, insert_at, needle), its backup being left at the default
\* True.
PathsEnsureInFile ==
    /\ BackupInBounds(fs, P)
    /\ \E text \in IF nops > 0 THEN {last.args.text} ELSE Texts,
          given \in IF nops > 0 THEN {last.args.insert_at}
                    ELSE {<<>>, <<"o">>},
          bk \in IF nops > 0 THEN {last.args.backup} ELSE BOOLEAN,
          fault \in {"none", "rename", "touch"} :
          LET insert_at == IF given = <<>> THEN EndOfString ELSE given
          IN Called("paths.ensure_in_file", P,
                    [NoArgs EXCEPT !.text = text, !.insert_at = given,
                                   !.backup = bk],
                    fault,
                    ensure_in_file(fs, P, text, insert_at, PyBool(bk), TRUE,
                                   now, fault),
                    ensure_in_file(fs, P, text, insert_at, PyBool(bk), TRUE,
                                   now, "none"))

\* A plugin calls Fs.ensure_perms(P, permissions).
EnsurePerms ==
    \E permissions \in IF nops > 0 THEN {last.args.permissions}
                       ELSE PermStrings,
       fault \in {"none", "chmod"} :
        Called("ensure_perms", P, [NoArgs EXCEPT !.permissions = permissions],
               fault,
               ensure_perms(fs, P, permissions, fault, <<>>),
               ensure_perms(fs, P, permissions, "none", <<>>))

\* Between two runs of the plan (of a subtask that sets permissions) the
\* directory that holds the paths gets another owner, group and mode.
ChangeParent ==
    /\ nops > 0 /\ nops < MaxOps
    /\ last.op \in {"ensure_perms", "ensure_dir"}
    /\ fs[D].perm # NewDirPerm
    /\ fs' = [fs EXCEPT ![D].perm = NewDirPerm]
    /\ UNCHANGED <<now, last, nops>>
    /\ UNCHANGED <<runVars, leafVars, helperVars>>

NextFs ==
    \/ Backup
    \/ Remove
    \/ EnsureFile
    \/ EnsureLink
    \/ EnsureDir
    \/ EnsureInFile
    \/ PathsEnsureInFile
    \/ EnsurePerms
    \/ Tick
    \/ ChangeParent

SpecFs == InitFs /\ [][NextFs]_<<fsVars, runVars, leafVars, helperVars>>

\* ------------------------------------------------- Fs: paths in a tree
\* Fs.ensure_path works on the directories /a, /a/b and /b under "/".
TreePaths == {"/", "/a", "/a/b", "/b"}
TreeNames ==
    TreePaths \cup UNION {BackupNames(p) : p \in TreePaths \ {"/"}}

\* path.parts of "/", "/a", "/a/b", "/b" and of the relative "a", "a/b", "b".
PathParts == {<<"/">>, <<"/", "a">>, <<"/", "a", "b">>, <<"/", "b">>,
              <<"a">>, <<"a", "b">>, <<"b">>}

\* str(path)
PathString(parts) ==
    IF parts[1] = "/" THEN "/" \o join_slash(Tail(parts))
    ELSE join_slash(parts)

\* The permission strings of one directory.
DirPermissions == {"-", ".", "u,u,755"}

\* d1/d2/.../dn
RECURSIVE Slashed(_)
Slashed(ds) ==
    IF Len(ds) = 1 THEN ds
    ELSE <<Head(ds), "/">> \o Slashed(Tail(ds))

\* Permission strings for a path: "", and up to MaxDescriptors descriptors
\* with "/" between them, with and without a leading "/".
PathPermissions ==
    LET lists == UNION {[1..n -> DirPermissions] : n \in 1..MaxDescriptors}
    IN {<<>>} \cup {Slashed(ds) : ds \in lists}
              \cup {<<"/">> \o Slashed(ds) : ds \in lists}

UserPerm == [owner |-> "u", group |-> "u", mode |-> "700"]

\* /a holds nothing, a file or a directory, which may hold a file or a
\* directory b; /b holds nothing or a directory; no backup exists.
InitPath ==
    /\ now = 1
    /\ \E a \in {None, File(OldText, 0, Root), Dir(FALSE, 0, UserPerm)},
          ab \in {None, File(OldText, 0, Root), Dir(TRUE, 0, UserPerm)},
          b \in {None, Dir(TRUE, 0, UserPerm)} :
          /\ a.kind # "dir" => ab = None
          /\ fs = [q \in TreeNames |->
                     IF q = "/" THEN Dir(FALSE, 0, NewDirPerm)
                     ELSE IF q = "/a" THEN a
                     ELSE IF q = "/a/b" THEN ab
                     ELSE IF q = "/b" THEN b
                     ELSE None]
    /\ last = [op |-> "none", path |-> "", args |-> NoArgs, fault |-> "none",
               res |-> "ok",
               pre |-> fs, log |-> <<>>, again |-> FALSE, before |-> "ok"]
    /\ nops = 0
    /\ RunIdle
    /\ LeafIdle
    /\ HelperIdle

\* A plugin calls Fs.ensure_path(path, path_permissions, backup), with the
\* arguments of the call before when there was one.
EnsurePath ==
    \E parts \in IF nops > 0 THEN {last.args.parts} ELSE PathParts,
       path_permissions \in IF nops > 0 THEN {last.args.path_permissions}
                            ELSE PathPermissions,
       bk \in IF nops > 0 THEN {last.args.backup} ELSE BOOLEAN,
       fault \in {"none", "rename", "mkdir", "chmod"} :
        Called("ensure_path", PathString(parts),
               [NoArgs EXCEPT !.parts = parts,
                              !.path_permissions = path_permissions,
                              !.backup = bk],
               fault,
               ensure_path(fs, parts, path_permissions, bk, now, fault),
               ensure_path(fs, parts, path_permissions, bk, now, "none"))

NextPath == EnsurePath

SpecPath == InitPath /\ [][NextPath]_<<fsVars, runVars, leafVars, helperVars>>

\* ------------------------------------------------------ Fs: the claims
\* The system calls of the last call that are a call of the given kind.
Logged(kind) == {i \in 1..Len(last.log) : last.log[i][1] = kind}

\* The first backup name of P that held nothing before the last call.
FirstUnused ==
    CHOOSE n \in 0..MaxBackups :
        /\ last.pre[BackupPath(P, n)].kind = "none"
        /\ \A k \in 0..(n - 1) : last.pre[BackupPath(P, k)].kind # "none"

\* C1: Fs.backup(P) on a regular file or a directory P moves P with exactly
\* one rename to the first unused name of P~, P~1~, P~2~, ...; every backup
\* that existed before the call still exists unchanged, and P is gone.
C1_BackupKeepsEveryBackup ==
    (/\ last.op = "backup" /\ last.res = "ok"
     /\ last.pre[P].kind \in {"file", "dir"})
    => /\ last.log = <<<<"rename", P, BackupPath(P, FirstUnused)>>>>
       /\ fs[P].kind = "none"
       /\ fs[BackupPath(P, FirstUnused)] = last.pre[P]
       /\ \A q \in BackupNames(P) :
            last.pre[q].kind # "none" => fs[q] = last.pre[q]

\* C6: Fs.ensure_file with mode 'update' on an existing regular-file target
\* replaces the target if and only if the template source is strictly newer
\* (T1 > T2); the target is left untouched when T1 = T2.
C6_UpdateReplacesIffStrictlyNewer ==
    (/\ last.op = "ensure_file" /\ last.args.mode = "update"
     /\ last.res = "ok"
     /\ last.pre[P].kind = "file" /\ last.pre[T].kind = "file")
    => /\ Logged("write") # {} <=> last.pre[T].mtime > last.pre[P].mtime
       /\ last.pre[T].mtime = last.pre[P].mtime => fs = last.pre

\* The text held by an entry (nothing for a directory or a symlink).
Content(e) == IF e.kind = "file" THEN e.content ELSE <<>>

\* C7: a second Fs.ensure_file call with the arguments of the first and mode
\* 'update' or 'asis' creates no second backup and changes no content.
C7_SecondEnsureFileChangesNothing ==
    (/\ last.op = "ensure_file" /\ last.again
     /\ last.before = "ok" /\ last.res = "ok"
     /\ last.args.mode \in {"update", "asis"})
    => /\ Logged("rename") = {}
       /\ \A q \in Paths :
            fs[q].kind = last.pre[q].kind /\ Content(fs[q]) = Content(last.pre[q])

\* C13: when Fs.remove(P, backup) returns without error nothing is at P any
\* more, whatever was there (a file, an empty directory, a symlink to an
\* existing target, a dangling symlink), and the target of a symlink at P is
\* as it was.
C13_RemoveLeavesNothingAtPath ==
    (last.op = "remove" /\ last.path = P /\ last.res = "ok")
    => /\ fs[P].kind = "none"
       /\ last.pre[P].kind = "link" =>
             fs[last.pre[P].target] = last.pre[last.pre[P].target]

\* C14: Fs.remove on a path where nothing is returns successfully, makes no
\* system call, creates no backup and leaves the filesystem as it was, for
\* either value of backup, the first time and when repeated.
C14_RemoveOfNothingIsNoOp ==
    (last.op = "remove" /\ last.pre[last.path].kind = "none")
    => /\ last.res = "ok"
       /\ last.log = <<>>
       /\ fs = last.pre

\* Fs.remove(P, backup=True) has been repeated on a path where nothing is.
C14_RemovedNothingTwice ==
    /\ last.op = "remove" /\ last.path = P /\ last.again
    /\ last.args.backup
    /\ last.pre[P].kind = "none"
    /\ last.res = "ok"

\* The calls that remove or replace what is at the path.
ReplacingOps == {"remove", "ensure_file", "ensure_dir", "ensure_link",
                 "ensure_in_file"}

\* Entry e is the entity o with its content: the text of a file, what a
\* directory holds.
SameEntity(e, o) ==
    /\ e.kind = o.kind
    /\ e.kind = "file" => e.content = o.content
    /\ e.kind = "dir" => e.empty = o.empty

\* The backup names of P the last call has put something under.
NewBackups == {q \in BackupNames(P) : fs[q] # last.pre[q]}

\* C15: with backup=True, after Fs.remove or an ensure_* call on P, however
\* it ended, the regular file or directory that was at P is still at P or is
\* under a backup name of P the call has moved it to, with its content, a
\* non-empty directory included.
C15_BackupNeverDeletes ==
    (/\ last.op \in ReplacingOps /\ last.path = P /\ last.args.backup
     /\ last.pre[P].kind \in {"file", "dir"})
    => \E q \in {P} \cup NewBackups : SameEntity(fs[q], last.pre[P])

\* Fs.ensure_link(P, target, backup=True) has replaced a non-empty directory
\* by a symlink.
C15_ReplacedNonEmptyDirectory ==
    /\ last.op = "ensure_link" /\ last.args.backup /\ last.res = "ok"
    /\ last.pre[P].kind = "dir" /\ ~last.pre[P].empty
    /\ fs[P].kind = "link"
    /\ \E q \in NewBackups : SameEntity(fs[q], last.pre[P])

\* The last call has left every path it can reach as it was (the parent
\* directory D is changed between calls only).
NothingChanged == \A q \in Paths \ {D} : fs[q] = last.pre[q]

\* The i-th field (owner, group, mode) the permission string of the last
\* call asks for.
Asked(i) ==
    LET permissions == last.args.permissions
    IN IF Len(permissions) = 1 THEN permissions[1] ELSE permissions[i]

WellFormed == Len(last.args.permissions) = 3 \/ last.args.permissions \in {<<"-">>, <<".">>}

\* C16: Fs.ensure_perms on a file or directory with an owner or group name
\* the system does not know fails, and mode, owner and group of the path are
\* then what they were before the call.
C16_UnknownNameChangesNothing ==
    (/\ last.op = "ensure_perms" /\ WellFormed
     /\ last.pre[P].kind \in {"file", "dir"}
     /\ \/ Asked(1) \notin KnownNames \cup {"-", "."}
        \/ Asked(2) \notin KnownNames \cup {"-", "."})
    => /\ last.res # "ok"
       /\ NothingChanged

\* C17: Fs.ensure_perms on a symlink changes neither the symlink nor its
\* target, for every permission string.
C17_SymlinkPermsUntouched ==
    (last.op = "ensure_perms" /\ last.pre[P].kind = "link")
    => /\ NothingChanged
       /\ last.log = <<>>

\* Fs.ensure_perms(P, ".") has returned for a symlink P whose target has
\* another owner, group and mode than the parent directory.
C17_SymlinkToFileWithOtherPerms ==
    /\ last.op = "ensure_perms" /\ last.res = "ok"
    /\ last.args.permissions = <<".">>
    /\ last.pre[P].kind = "link"
    /\ last.pre[X].kind = "file"
    /\ last.pre[X].perm # last.pre[D].perm

\* Owner, group, mode of a permission record, by position in the string.
PermField(perm, i) ==
    IF i = 1 THEN perm.owner ELSE IF i = 2 THEN perm.group ELSE perm.mode

\* C18: after a successful Fs.ensure_perms on a file or directory every
\* field asked as '.' has the value the parent directory had when the call
\* was made, and every field asked as '-' the value the path had.
C18_DotInheritsDashKeeps ==
    (/\ last.op = "ensure_perms" /\ last.res = "ok" /\ WellFormed
     /\ last.pre[P].kind \in {"file", "dir"})
    => \A i \in 1..3 :
          /\ Asked(i) = "." =>
                PermField(fs[P].perm, i) = PermField(last.pre[D].perm, i)
          /\ Asked(i) = "-" =>
                PermField(fs[P].perm, i) = PermField(last.pre[P].perm, i)

\* Fs.ensure_perms(P, ".") has been repeated on a directory after its
\* parent had changed, and has set P to what the parent has now.
C18_InheritedFromChangedParent ==
    /\ last.op = "ensure_perms" /\ last.res = "ok" /\ last.again
    /\ last.args.permissions = <<".">>
    /\ last.pre[P].kind = "dir"
    /\ last.pre[D].perm = NewDirPerm
    /\ last.pre[P].perm # NewDirPerm
    /\ fs[P].perm = NewDirPerm

\* Before the last call P was a symlink that resolves to the file the
\* target of the call resolves to.
WasCorrectLink ==
    /\ last.pre[P].kind = "link"
    /\ Stat(last.pre, P).kind # "none"
    /\ Resolve(last.pre, P) = Resolve(last.pre, last.args.target)

\* C19: Fs.ensure_link(P, target, backup) on a symlink P that resolves to
\* the same file as target returns without any system call and changes
\* nothing, for either value of backup.
C19_CorrectLinkIsLeftAlone ==
    (last.op = "ensure_link" /\ WasCorrectLink)
    => /\ last.res = "ok"
       /\ last.log = <<>>
       /\ NothingChanged

\* Fs.ensure_link(P, X, backup=True) has been repeated on a symlink to the
\* existing file X.
C19_EnsuredCorrectLinkTwice ==
    /\ last.op = "ensure_link" /\ last.again /\ last.res = "ok"
    /\ last.args.target = X /\ last.args.backup
    /\ last.pre[P] = Link(X) /\ last.pre[X].kind = "file"

\* C20 (as stated): when P holds anything but a correct symlink, a
\* successful Fs.ensure_link(P, target, backup) leaves a symlink to target at
\* P, and with backup=True the entity that was at P (file, directory or
\* symlink) is under a backup name of P, with backup=False under none.
C20_WrongEntityReplacedPerBackupPolicy ==
    (/\ last.op = "ensure_link" /\ last.res = "ok"
     /\ last.pre[P].kind # "none" /\ ~WasCorrectLink)
    => /\ fs[P] = Link(last.args.target)
       /\ last.args.backup => \E q \in NewBackups : fs[q] = last.pre[P]
       /\ ~last.args.backup => NewBackups = {}

\* C20 (amended): when P holds anything but a correct symlink, a successful
\* Fs.ensure_link(P, target, backup) leaves a symlink to target at P; a
\* regular file or a directory is with backup=True under a backup name of P
\* and with backup=False under none; a symlink (dangling or pointing
\* elsewhere) is unlinked without a backup, whatever backup says.
C20_WrongEntityReplacedSymlinkUnlinked ==
    (/\ last.op = "ensure_link" /\ last.res = "ok"
     /\ last.pre[P].kind # "none" /\ ~WasCorrectLink)
    => /\ fs[P] = Link(last.args.target)
       /\ last.args.backup /\ last.pre[P].kind \in {"file", "dir"}
             => \E q \in NewBackups : fs[q] = last.pre[P]
       /\ ~last.args.backup \/ last.pre[P].kind = "link" => NewBackups = {}
       /\ last.pre[P].kind = "link" => Logged("unlink") # {}

\* Fs.ensure_link(P, T, backup=True) has replaced a symlink that pointed
\* elsewhere.
C20_ReplacedLinkPointingElsewhere ==
    /\ last.op = "ensure_link" /\ last.res = "ok"
    /\ last.args.target = T /\ last.args.backup
    /\ last.pre[P] = Link(X)
    /\ fs[P] = Link(T)

\* C21: Fs.ensure_dir(P, permissions, backup) on a directory P that is not
\* a symlink makes no rename, unlink, rmdir or mkdir; P stays the directory
\* it was, with what it holds and its modification time, no backup name gets
\* anything, and all that changes is what Fs.ensure_perms(P, permissions)
\* changes.
C21_ExistingDirectoryOnlyGetsPerms ==
    (last.op = "ensure_dir" /\ last.pre[P].kind = "dir")
    => LET perms == ensure_perms(last.pre, P, last.args.permissions,
                                 last.fault, <<>>)
       IN /\ \A k \in {"rename", "unlink", "rmdir", "mkdir"} :
                Logged(k) = {}
          /\ SameEntity(fs[P], last.pre[P])
          /\ fs[P].mtime = last.pre[P].mtime
          /\ NewBackups = {}
          /\ last.res = perms.res
          /\ last.log = perms.log
          /\ \A q \in Paths \ {D} : fs[q] = perms.fs[q]

\* Fs.ensure_dir(P, ".", backup=False) has given a non-empty directory the
\* owner, group and mode of its parent.
C21_NonEmptyDirectoryGotParentPerms ==
    /\ last.op = "ensure_dir" /\ last.res = "ok" /\ ~last.args.backup
    /\ last.pre[P].kind = "dir" /\ ~last.pre[P].empty
    /\ last.args.permissions = <<".">>
    /\ fs[P].perm # last.pre[P].perm
    /\ fs[P].kind = "dir" /\ ~fs[P].empty

\* C22: when P holds nothing, a regular file or a symlink (to a file, to a
\* directory or to nothing), Fs.ensure_dir(P, permissions, backup) succeeds
\* unless a system call fails, and when it has succeeded P is a directory
\* and no symlink, and what was at P is under a backup name of P with
\* backup=True and under none with backup=False.
C22_NonDirectoryBecomesDirectory ==
    (last.op = "ensure_dir" /\ last.pre[P].kind \in {"none", "file", "link"})
    => /\ last.fault = "none" => last.res = "ok"
       /\ last.res = "ok"
          => /\ fs[P].kind = "dir"
             /\ last.pre[P].kind # "none"
                => IF last.args.backup
                   THEN \E q \in NewBackups : fs[q] = last.pre[P]
                   ELSE NewBackups = {}

\* The number of "/"-separated permission strings the last call was given.
DescriptorCount ==
    1 + Cardinality({i \in 1..Len(last.args.path_permissions) :
                        last.args.path_permissions[i] = "/"})

\* C23: Fs.ensure_path raises UpsetFsError when the number of "/"-separated
\* permission strings differs from the number of parts of the path, and
\* then it has made no call of Fs.ensure_dir and no system call, and the
\* filesystem is as it was.
C23_LengthMismatchChangesNothing ==
    (last.op = "ensure_path" /\ DescriptorCount # Len(last.args.parts))
    => /\ last.res = "UpsetFsError"
       /\ last.log = <<>>
       /\ fs = last.pre

\* Fs.ensure_path("/a/b", "/u,u,755", backup) has been refused while /a did
\* not exist.
C23_RefusedBeforeCreatingAnything ==
    /\ last.op = "ensure_path" /\ last.res = "UpsetFsError"
    /\ last.args.parts = <<"/", "a", "b">>
    /\ last.args.path_permissions = <<"/", "u,u,755">>
    /\ last.pre["/a"].kind = "none" /\ fs["/a"].kind = "none"

\* The calls of Fs.ensure_dir the last call has made: path and permission
\* string, in order.
EnsureDirCalls ==
    LET IsCall(e) == e[1] = "ensure_dir"
        calls == SelectSeq(last.log, IsCall)
    IN [i \in 1..Len(calls) |-> <<calls[i][2], calls[i][3]>>]

\* The segments of the path of the last call, and for each its prefix of
\* the path and its permission string (an absolute path has one string more,
\* the one before the leading "/").
Segments ==
    IF last.args.parts[1] = "/" THEN Tail(last.args.parts)
    ELSE last.args.parts

PrefixCalls ==
    LET absolute == last.args.parts[1] = "/"
        all == split_slash(last.args.path_permissions, "")
        permissions == IF absolute THEN Tail(all) ELSE all
    IN [i \in 1..Len(Segments) |->
          <<(IF absolute THEN "/" ELSE "")
                \o join_slash(SubSeq(Segments, 1, i)),
            permissions[i]>>]

\* C24: Fs.ensure_path on a path of n segments with as many permission
\* strings as parts calls Fs.ensure_dir on the prefixes s1, s1/s2, ...,
\* s1/.../sn in this order, the i-th call with the permission string of the
\* i-th segment, each at most once and all of them when it succeeds, and
\* makes no call and no system call on "/".
C24_OneEnsureDirPerPrefix ==
    (last.op = "ensure_path" /\ DescriptorCount = Len(last.args.parts))
    => /\ Len(EnsureDirCalls) <= Len(PrefixCalls)
       /\ \A i \in 1..Len(EnsureDirCalls) : EnsureDirCalls[i] = PrefixCalls[i]
       /\ last.res = "ok" => Len(EnsureDirCalls) = Len(PrefixCalls)
       /\ \A i \in 1..Len(last.log) : last.log[i][2] # "/"
       /\ fs["/"] = last.pre["/"]

\* C25: Fs.ensure_file with mode 'asis' on a regular file P returns without
\* error and without a system call: content, modification time and
\* permissions of P are as before, no backup name gets anything and nothing
\* else changes, whether the template source exists or not.
C25_AsisKeepsExistingFile ==
    (/\ last.op = "ensure_file" /\ last.args.mode = "asis"
     /\ last.pre[P].kind = "file")
    => /\ last.res = "ok"
       /\ last.log = <<>>
       /\ fs = last.pre

\* Fs.ensure_file(P, ..., mode='asis', backup=True) has returned on a
\* regular file P while no template source existed.
C25_AsisWithoutTemplate ==
    /\ last.op = "ensure_file" /\ last.args.mode = "asis"
    /\ last.args.backup /\ last.res = "ok"
    /\ last.pre[P].kind = "file" /\ last.pre[T].kind = "none"
    /\ DOMAIN last.args.template.substitutes # {}

\* C26: when Fs.ensure_file with mode 'force' on a regular file or a
\* directory P succeeds, whatever the modification times, it has removed
\* what was at P before writing P (with backup=True by moving it to a
\* backup name of P, else without any backup), has written P as a regular
\* file holding the template text with the $names found in substitutes
\* replaced and the others verbatim, and has set the permissions after the
\* write.
C26_ForceAlwaysReplaces ==
    (/\ last.op = "ensure_file" /\ last.args.mode = "force"
     /\ last.res = "ok" /\ last.pre[P].kind \in {"file", "dir"})
    => LET removals == Logged("rename") \cup Logged("unlink")
                          \cup Logged("rmdir")
           writes == Logged("write")
           perms == Logged("chmod") \cup Logged("chown") \cup Logged("chgrp")
       IN /\ Cardinality(removals) = 1 /\ Cardinality(writes) = 1
          /\ \A i \in removals, j \in writes : i < j
          /\ \A j \in writes, k \in perms : j < k
          /\ IF last.args.backup
             THEN /\ removals = Logged("rename")
                  /\ \E q \in NewBackups : fs[q] = last.pre[P]
             ELSE NewBackups = {}
          /\ fs[P].kind = "file"
          /\ fs[P].content =
                 IF DOMAIN last.args.template.substitutes = {}
                 THEN last.pre[T].content
                 ELSE <<"h", "a", Placeholder("g")>>
          /\ fs[P].perm = fs[D].perm

\* Fs.ensure_file(P, ..., mode='force', backup=True) with a substitute for
\* $u has replaced a regular file that was newer than the template source.
C26_ForcedOverNewerFile ==
    /\ last.op = "ensure_file" /\ last.args.mode = "force"
    /\ last.args.backup /\ last.res = "ok"
    /\ DOMAIN last.args.template.substitutes # {}
    /\ last.pre[P].kind = "file" /\ last.pre[T].kind = "file"
    /\ last.pre[P].mtime > last.pre[T].mtime
    /\ fs[P].content = <<"h", "a", Placeholder("g")>>

\* C27: when the template source is not a readable regular file (it is
\* missing or a directory), Fs.ensure_file raises UpsetFsError, for every
\* mode and every substitutes map, unless it returns before reading the
\* template and then without having made a system call; no other exception
\* leaves the call.
C27_UnreadableTemplateIsUpsetFsError ==
    (last.op = "ensure_file" /\ last.pre[T].kind # "file")
    => \/ last.res = "UpsetFsError"
       \/ last.res = "ok" /\ last.log = <<>>

\* The text of the file P names before the last call (nothing when there was
\* no file), and after it.
OldContent == Content(Stat(last.pre, P))
NewContent == Content(Stat(fs, P))

\* The needle of the last call (its text when no needle was given) as a
\* regular expression matches at position i of OldContent.
NeedleMatchesAt(i) ==
    LET needle == IF last.args.needle = <<>> THEN last.args.text
                  ELSE last.args.needle
    IN /\ i + Len(needle) - 1 <= Len(OldContent)
       /\ \A k \in 1..Len(needle) :
             LET c == OldContent[i + k - 1]
             IN \/ needle[k] = "." /\ c # "\n"
                \/ needle[k] = "\\n" /\ c = "\n"
                \/ needle[k] \notin {".", "\\n"} /\ needle[k] = c

NeedleFound == \E i \in 1..(Len(OldContent) + 1) : NeedleMatchesAt(i)

\* C28: when the needle (the text when no needle is given) matches in the
\* file at P, Fs.ensure_in_file returns without error and without a system
\* call: the content is as before and no backup name gets anything, for
\* every insert_at and both values of backup.
C28_FoundNeedleChangesNothing ==
    (/\ last.op = "ensure_in_file" /\ Stat(last.pre, P).kind = "file"
     /\ NeedleFound)
    => /\ last.res = "ok"
       /\ last.log = <<>>
       /\ fs = last.pre

\* Fs.ensure_in_file(P, "n", insert_at="o", backup=True) has been repeated
\* on the file in which the first call put "n" in place of "o".
C28_RepeatedReplacementFoundText ==
    /\ last.op = "ensure_in_file" /\ last.again /\ last.res = "ok"
    /\ last.args.backup /\ last.args.insert_at = <<"o">>
    /\ last.args.text = <<"n">>
    /\ last.pre[P].kind = "file" /\ last.pre[P].content = <<"n">>

\* The backup of the file of the last call: with backup=True a backup name
\* of P holds what was at P (the empty file the call created when nothing
\* was there), with backup=False no backup name has changed.
OldFileBackedUp ==
    IF last.args.backup
    THEN \E q \in NewBackups :
            IF last.pre[P].kind = "none"
            THEN fs[q].kind = "file" /\ fs[q].content = <<>>
            ELSE fs[q] = last.pre[P]
    ELSE NewBackups = {}

\* C29 (as stated): when the needle does not match and insert_at is the
\* default, a successful Fs.ensure_in_file leaves the old content followed
\* by the text as it was given, and the old file under a backup name with
\* backup=True.
C29_AppendsTheTextVerbatim ==
    (/\ last.op = "ensure_in_file" /\ last.res = "ok"
     /\ last.args.insert_at = EndOfString /\ ~NeedleFound)
    => /\ NewContent = OldContent \o last.args.text
       /\ OldFileBackedUp

\* C29: when the needle does not match and insert_at is the default, a
\* successful Fs.ensure_in_file leaves the old content followed once by the
\* text as re.sub expands it as a replacement (the escape \n of the text is
\* written as a newline, a text without escapes as it is), and the old file
\* under a backup name with backup=True.
C29_AppendsTheExpandedText ==
    (/\ last.op = "ensure_in_file" /\ last.res = "ok"
     /\ last.args.insert_at = EndOfString /\ ~NeedleFound)
    => /\ NewContent =
             OldContent \o [k \in 1..Len(last.args.text) |->
                               IF last.args.text[k] = "\\n" THEN "\n"
                               ELSE last.args.text[k]]
       /\ OldFileBackedUp

\* Fs.ensure_in_file(P, r'\nn', backup=True) has appended a newline and "n"
\* to the file that held "o".
C29_AppendedEscapedNewline ==
    /\ last.op = "ensure_in_file" /\ last.res = "ok" /\ last.args.backup
    /\ last.args.text = <<"\\n", "n">>
    /\ last.args.insert_at = EndOfString
    /\ last.pre[P].kind = "file" /\ last.pre[P].content = <<"o">>
    /\ fs[P].content = <<"o", "\n", "n">>
    /\ fs[BackupPath(P, 0)].kind = "file"

\* C35: Fs.backup(P) on a symlink P, whether its target exists or not,
\* returns without error and without a system call: P is the same symlink
\* and no backup name of P gets anything.
C35_BackupLeavesSymlinkAlone ==
    (last.op = "backup" /\ last.pre[P].kind = "link")
    => /\ last.res = "ok"
       /\ last.log = <<>>
       /\ fs = last.pre

\* C37: when Fs.ensure_file fails while no system call fails and the template
\* source is not a readable regular file, what was at P before the call is
\* still at P, unchanged, and no backup name of P has got anything, with
\* backup=True and with backup=False.
C37_UnreadableTemplateLeavesTarget ==
    (/\ last.op = "ensure_file" /\ last.fault = "none"
     /\ last.pre[T].kind # "file" /\ last.res # "ok")
    => /\ fs[P] = last.pre[P]
       /\ NewBackups = {}

\* insert_at of the last call matches in OldContent (the end of the file
\* always does).
InsertAtFound ==
    \/ last.args.insert_at = EndOfString
    \/ Contains(OldContent, last.args.insert_at)

\* C38: when neither the needle nor insert_at matches in the file, a
\* successful Fs.ensure_in_file leaves the content as it was and puts
\* nothing under a backup name of P, also when it had to create the file.
C38_NoMatchNoBackup ==
    (/\ last.op = "ensure_in_file" /\ last.res = "ok"
     /\ ~NeedleFound /\ ~InsertAtFound)
    => /\ NewContent = OldContent
       /\ NewBackups = {}

\* C40: the in_file subtask of the paths plugin ends as
\* Fs.ensure_in_file(P, text, insert_at, backup=backup) with the text as
\* the needle ends: the same result and the same filesystem, so that
\* backup=False creates no backup and backup=True keeps the file it changes
\* under a backup name.
C40_SubtaskBackupIsTheBackupPolicy ==
    (last.op = "paths.ensure_in_file" /\ last.fault = "none")
    => LET insert_at == IF last.args.insert_at = <<>> THEN EndOfString
                        ELSE last.args.insert_at
           direct == ensure_in_file(last.pre, P, last.args.text, insert_at,
                                    <<>>, last.args.backup, now, "none")
       IN /\ last.res = direct.res
          /\ fs = direct.fs
          /\ ~last.args.backup => NewBackups = {}

\* ------------------------------------------------- Upset: pure functions
\* Names a replacement field of str.format can carry in the model.
Names == {"u", "g", "x"}

\* The replacement field "{name}", one token of a string.
Field(n) == "{" \o n \o "}"

IsField(c) == \E n \in Names : c = Field(n)
FieldName(c) == CHOOSE n \in Names : c = Field(n)

\* The binding names a string references.
Refs(str) == {FieldName(str[i]) : i \in {k \in 1..Len(str) : IsField(str[k])}}

\* The brace escapes "{{" and "}}" and the positional field "{}", each one
\* token of a string.
OpenBrace == "{{"
CloseBrace == "}}"
Positional == "{}"

\* str.format(**var) once every referenced name is a key of var: a field
\* gives the value of its name, a brace escape the single brace.
RECURSIVE Formatted(_, _)
Formatted(str, var) ==
    IF str = <<>> THEN <<>>
    ELSE IF IsField(Head(str))
    THEN var[FieldName(Head(str))] \o Formatted(Tail(str), var)
    ELSE IF Head(str) = OpenBrace THEN <<"{">> \o Formatted(Tail(str), var)
    ELSE IF Head(str) = CloseBrace THEN <<"}">> \o Formatted(Tail(str), var)
    ELSE <<Head(str)>> \o Formatted(Tail(str), var)

\* JSON values: a string, a number, a list, a dict (its items in order).
Str(str) == [t |-> "str", v |-> str]
Num(digits) == [t |-> "num", v |-> digits]
List(items) == [t |-> "list", v |-> items]
Dict(items) == [t |-> "dict", v |-> items]

\* What expand_task_leaves gives when str.format raises KeyError, which it
\* turns into UpsetError (upset.py:271-273).
Raised == [t |-> "UpsetError", v |-> <<>>]

\* A format that puts nothing where var has no value for a name.
format_lenient(str, var) ==
    Str(Formatted(str, [n \in Names |-> IF n \in DOMAIN var THEN var[n] ELSE <<>>]))

\* leaf.format(**var) of expand_task_leaves, upset.py:260-262 and 271-276: a
\* name that is no key of var raises KeyError, a positional field IndexError
\* (no positional argument is given), and both leave as UpsetError.
format(str, var) ==
    IF /\ Refs(str) \subseteq DOMAIN var
       /\ \A i \in 1..Len(str) : str[i] # Positional
    THEN Str(Formatted(str, var))
    ELSE Raised

\* d[key] = value on the items of a dict: a key already there keeps its place.
DictPut(items, key, value) ==
    IF \E i \in 1..Len(items) : items[i][1] = key
    THEN [i \in 1..Len(items) |->
            IF items[i][1] = key THEN <<key, value>> ELSE items[i]]
    ELSE Append(items, <<key, value>>)

\* A list that is returned as it is.
list_as_is(items, var, done) == List(items)

\* Upset.expand_task_leaves, upset.py:252-276.  A dict key is a string and is
\* expanded as one.
RECURSIVE expand_task_leaves(_, _)
RECURSIVE expand_items(_, _, _)
RECURSIVE expand_list(_, _, _)
expand_task_leaves(leaf, var) ==
    IF leaf.t = "str" THEN format(leaf.v, var)
    ELSE IF leaf.t = "list" THEN expand_list(leaf.v, var, <<>>)
    ELSE IF leaf.t = "dict" THEN expand_items(leaf.v, var, <<>>)
    ELSE leaf

expand_list(items, var, done) ==
    IF items = <<>> THEN List(done)
    ELSE LET item == expand_task_leaves(Head(items), var)
         IN IF item = Raised THEN Raised
            ELSE expand_list(Tail(items), var, Append(done, item))

expand_items(items, var, done) ==
    IF items = <<>> THEN Dict(done)
    ELSE LET key == expand_task_leaves(Str(Head(items)[1]), var)
             value == expand_task_leaves(Head(items)[2], var)
         IN IF key = Raised \/ value = Raised THEN Raised
            ELSE expand_items(Tail(items), var, DictPut(done, key.v, value))

\* Upset.expand_task, upset.py:233-250: the task itself for an empty var
\* (alias), else a new task with expanded variables and files.
expand_task(task, var) ==
    IF DOMAIN var = {} THEN [alias |-> TRUE, res |-> "ok", task |-> task]
    ELSE LET variables == expand_task_leaves(task.variables, var)
             files == expand_task_leaves(task.files, var)
         IN IF variables = Raised \/ files = Raised
            THEN [alias |-> FALSE, res |-> "UpsetError", task |-> task]
            ELSE [alias |-> FALSE, res |-> "ok",
                  task |-> [name |-> task.name, plugin |-> task.plugin,
                            foreach |-> <<>>, variables |-> variables,
                            files |-> files]]

\* The working directory of the upset process, as path components.
Cwd == << <<"w">> >>

\* pathlib.PurePath.parts without the root: the components between "/".
RECURSIVE Components(_, _)
Components(str, cur) ==
    IF str = <<>> THEN IF cur = <<>> THEN <<>> ELSE <<cur>>
    ELSE IF Head(str) = "/"
    THEN (IF cur = <<>> THEN <<>> ELSE <<cur>>) \o Components(Tail(str), <<>>)
    ELSE Components(Tail(str), Append(cur, Head(str)))

\* Path.resolve(strict=False).parts[1:] ("." and ".." components and
\* symlinks on the way are not modelled).
ResolvedParts(str) ==
    IF str # <<>> /\ Head(str) = "/" THEN Components(str, <<>>)
    ELSE Cwd \o Components(str, <<>>)

RECURSIVE Join(_, _)
Join(parts, sep) ==
    IF parts = <<>> THEN <<>>
    ELSE IF Len(parts) = 1 THEN parts[1]
    ELSE parts[1] \o sep \o Join(Tail(parts), sep)

\* Helper.create_unique_file_name, lib.py:767-776
create_unique_file_name(file) == Join(ResolvedParts(file), <<"_", "_", "_">>)

\* Upset.transform_task_to_data, upset.py:410-412: task.files after the loop.
RemoteFiles(files) ==
    Dict([i \in 1..Len(files.v) |->
            <<files.v[i][1], Str(create_unique_file_name(files.v[i][2].v))>>])

\* Upset.transform_task_to_data, upset.py:414-420: the payload.
transform_task_to_data(task, for_variable) ==
    [name |-> task.name, plugin |-> task.plugin,
     variables |-> task.variables, files |-> RemoteFiles(task.files),
     for |-> for_variable]

\* ------------------------------------------------- Upset: the plan files
A == <<"a">>
B == <<"b">>

\* Task descriptors of a plan file; has names the fields the JSON object has.
Descriptor(has, name, plugin, foreach, variables, files) ==
    [has |-> has, name |-> name, plugin |-> plugin, foreach |-> foreach,
     variables |-> variables, files |-> files]

AllFields == {"name", "plugin", "foreach", "variables", "files"}

Descriptors == {
    \* two iterations, one file whose path references no binding
    Descriptor(AllFields, "t1", "p", <<"u" :> A, "u" :> B>>,
               Dict(<< <<<<"k">>, Str(<<"v", Field("u")>>)>> >>),
               Dict(<< <<<<"t">>, Str(<<"/", "t">>)>> >>)),
    \* no foreach, a variable that references a binding
    Descriptor(AllFields \ {"foreach"}, "t2", "p", <<>>,
               Dict(<< <<<<"k">>, Str(<<Field("x")>>)>> >>),
               Dict(<< <<<<"t">>, Str(<<"/", "t">>)>> >>)),
    \* a nested leaf that references a binding the iteration does not give
    Descriptor(AllFields, "t3", "q", <<"u" :> A>>,
               Dict(<< <<<<"k">>, List(<<Num(<<"1">>), Str(<<Field("x")>>)>>)>> >>),
               Dict(<<>>)),
    \* two logical names for one path; the logical name of t1 for another path
    Descriptor(AllFields, "t4", "q", <<>>, Dict(<<>>),
               Dict(<< <<<<"t">>, Str(<<"/", "s">>)>>,
                       <<<<"r">>, Str(<<"/", "s">>)>> >>)),
    \* an empty binding map followed by another iteration
    Descriptor(AllFields, "t5", "p", <<EmptyMap, "u" :> A>>, Dict(<<>>),
               Dict(<< <<<<"t">>, Str(<<"/", "t">>)>> >>)),
    \* a logical name and a path that depend on the binding; a relative path
    Descriptor(AllFields, "t6", "q", <<"u" :> A, "u" :> B>>, Dict(<<>>),
               Dict(<< <<<<"f", Field("u")>>, Str(<<"/", "t", Field("u")>>)>>,
                       <<<<"t">>, Str(<<"s">>)>> >>)),
    \* no name
    Descriptor({"plugin"}, "", "p", <<>>, Dict(<<>>), Dict(<<>>)),
    \* no plugin
    Descriptor({"name"}, "t8", "", <<>>, Dict(<<>>), Dict(<<>>))
}

RECURSIVE SeqsUpTo(_, _)
SeqsUpTo(S, n) ==
    IF n = 0 THEN {<<>>}
    ELSE LET shorter == SeqsUpTo(S, n - 1)
         IN shorter \cup {Append(q, x) : q \in shorter, x \in S}

\* A plan file: unreadable, not JSON, or a list of task descriptors.
PlanFiles ==
    {[state |-> st, items |-> <<>>] : st \in {"missing", "invalid"}}
    \cup {[state |-> "ok", items |-> q] : q \in SeqsUpTo(Descriptors, MaxTasks)}

\* Task.from_json, upset.py:53-70 (json_object['name'] is there).
from_json(d) ==
    [name |-> d.name,
     plugin |-> IF "plugin" \in d.has THEN d.plugin ELSE "",
     foreach |-> IF "foreach" \in d.has THEN d.foreach ELSE <<>>,
     variables |-> IF "variables" \in d.has THEN d.variables ELSE Dict(<<>>),
     files |-> IF "files" \in d.has THEN d.files ELSE Dict(<<>>)]

\* Upset.read_plan, upset.py:176-199
read_plan(file) ==
    IF file.state # "ok" THEN [res |-> "UpsetError", tasks |-> <<>>]
    ELSE IF \E i \in 1..Len(file.items) : "name" \notin file.items[i].has
    THEN [res |-> "UpsetError", tasks |-> <<>>]
    ELSE [res |-> "ok",
          tasks |-> [i \in 1..Len(file.items) |-> from_json(file.items[i])]]

\* ----------------------------------------------------- Upset: the run
\* No plugin is at work on a filesystem (the behaviours of SpecRun).
FsIdle == fs = <<>> /\ now = 0 /\ last = "" /\ nops = 0

\* str(pathlib.Path()) before the workspace is known, and the path mktemp
\* prints.
NoPath == "."
Workspace == "/tmp/ws"

NoPayload == [name |-> "", plugin |-> "", variables |-> Dict(<<>>),
              files |-> Dict(<<>>), for |-> EmptyMap]

\* A command handed to Sys.run_command and whether it returned normally:
\* mktemp, mkdir, scp (kind says of what), run (a plugin, with the payload),
\* rm (of the workspace).
Command(kind, src, dst, ok, task, payload) ==
    [kind |-> kind, src |-> src, dst |-> dst, ok |-> ok, task |-> task,
     payload |-> payload]

Range(q) == {q[i] : i \in 1..Len(q)}

InitRun ==
    /\ LeafIdle
    /\ HelperIdle
    /\ planFile \in PlanFiles
    /\ pc = "read_plan"
    /\ plan = <<>> /\ ti = 0 /\ vi = 0
    /\ expanded = [alias |-> FALSE, task |-> from_json(
                       Descriptor({"name"}, "", "", <<>>, Dict(<<>>), Dict(<<>>)))]
    /\ password = ""
    /\ temp_dir = NoPath
    /\ made = FALSE
    /\ sent_plugins = <<>> /\ sent_files = <<>>
    /\ trace = <<>>
    /\ err = "none" /\ errAt = ""
    /\ FsIdle

\* A handler that logs the error and lets the run go on at the failed step.
except_resumes(at) == at

\* except lib.UpsetError of Upset.run, upset.py:155-161: where the run goes on
\* after the step at `at` has raised.
except_UpsetError(at) == "finally"

\* The step at pc raises UpsetError.
Fail ==
    /\ err' = "UpsetError"
    /\ errAt' = pc
    /\ pc' = except_UpsetError(pc)

\* plan = self.read_plan(...), upset.py:103
ReadPlan ==
    /\ pc = "read_plan"
    /\ LET r == read_plan(planFile)
       IN IF r.res = "ok"
          THEN plan' = r.tasks /\ pc' = "getpass" /\ UNCHANGED <<err, errAt>>
          ELSE Fail /\ UNCHANGED plan
    /\ UNCHANGED <<planFile, ti, vi, expanded, password, temp_dir, made,
                   sent_plugins, sent_files, trace>>
    /\ UNCHANGED <<fsVars, leafVars, helperVars>>

\* password = getpass.getpass(...), upset.py:106
GetPass ==
    /\ pc = "getpass"
    /\ password' = "secret"
    /\ pc' = "ensure_ssh_key"
    /\ UNCHANGED <<planFile, plan, ti, vi, expanded, temp_dir, made,
                   sent_plugins, sent_files, trace, err, errAt>>
    /\ UNCHANGED <<fsVars, leafVars, helperVars>>

\* lib.Sys.ensure_ssh_key(...), upset.py:115: the key is there, or ssh-keygen
\* is run and may fail.
EnsureSshKey ==
    /\ pc = "ensure_ssh_key"
    /\ \E ok \in BOOLEAN :
          IF ok THEN pc' = "mktemp" /\ UNCHANGED <<err, errAt>> ELSE Fail
    /\ UNCHANGED <<planFile, plan, ti, vi, expanded, password, temp_dir, made,
                   sent_plugins, sent_files, trace>>
    /\ UNCHANGED <<fsVars, leafVars, helperVars>>

\* Sys.make_temporary_directory, lib.py:626-628: mktemp -d on the target.
Mktemp ==
    /\ pc = "mktemp"
    /\ \E ok \in BOOLEAN :
          /\ trace' = Append(trace, Command("mktemp", <<>>, <<Workspace>>, ok,
                                            0, NoPayload))
          /\ made' = ok
          /\ IF ok THEN pc' = "mkdir" /\ UNCHANGED <<err, errAt>> ELSE Fail
    /\ UNCHANGED <<planFile, plan, ti, vi, expanded, password, temp_dir,
                   sent_plugins, sent_files>>
    /\ UNCHANGED <<fsVars, leafVars, helperVars>>

\* Sys.make_temporary_directory, lib.py:629-634: mkdir of the package
\* directory, then the return that assigns temp_dir (upset.py:118).
Mkdir ==
    /\ pc = "mkdir"
    /\ \E ok \in BOOLEAN :
          /\ trace' = Append(trace, Command("mkdir", <<>>, <<Workspace>>, ok,
                                            0, NoPayload))
          /\ IF ok
             THEN temp_dir' = Workspace /\ pc' = "send_lib"
                  /\ UNCHANGED <<err, errAt>>
             ELSE Fail /\ UNCHANGED temp_dir
    /\ UNCHANGED <<planFile, plan, ti, vi, expanded, password, made,
                   sent_plugins, sent_files>>
    /\ UNCHANGED <<fsVars, leafVars, helperVars>>

\* Upset.send_lib, upset.py:201-231: two copies, the first failure raises.
SendLib ==
    /\ pc = "send_lib"
    /\ \E failAt \in 0..2 :
          LET first == Command("scp_lib", <<"__init__.py">>, <<temp_dir>>,
                               failAt # 1, 0, NoPayload)
              second == Command("scp_lib", <<"lib.py">>, <<temp_dir>>,
                                failAt # 2, 0, NoPayload)
          IN /\ trace' = IF failAt = 1 THEN Append(trace, first)
                         ELSE trace \o <<first, second>>
             /\ IF failAt = 0
                THEN pc' = "send_plugin" /\ ti' = 1 /\ UNCHANGED <<err, errAt>>
                ELSE Fail /\ UNCHANGED ti
    /\ UNCHANGED <<planFile, plan, vi, expanded, password, temp_dir, made,
                   sent_plugins, sent_files>>
    /\ UNCHANGED <<fsVars, leafVars, helperVars>>

\* A send_plugin that does not look at what has been sent.
never_sent(plugin, sent) == FALSE

\* if task.plugin in self._sent_plugins, upset.py:297
plugin_already_sent(plugin, sent) == plugin \in Range(sent)

\* Plugins Helper.localise_plugin finds in one of the plugin directories.
Plugins == {"p", "q"}

\* A run that leaves an empty foreach as it is.
foreach_as_is(foreach) == foreach

\* if len(task.foreach) == 0: task.foreach = [{}], upset.py:138-139
fake_foreach(foreach) == IF Len(foreach) = 0 THEN <<EmptyMap>> ELSE foreach

\* An inner loop that takes the bindings last to first.
iteration_reversed(foreach, i) == foreach[Len(foreach) + 1 - i]

\* for var in task.foreach, upset.py:140: the binding of the i-th pass.
iteration(foreach, i) == foreach[i]

\* for task in plan (upset.py:130), Upset.send_plugin (upset.py:279-321) and
\* the replacement of an empty foreach (upset.py:138-139).
SendPlugin ==
    /\ pc = "send_plugin"
    /\ IF ti > Len(plan)
       THEN /\ pc' = "finally"
            /\ UNCHANGED <<plan, vi, sent_plugins, trace, err, errAt>>
       ELSE LET task == plan[ti]
                enter ==
                    /\ plan' = [plan EXCEPT ![ti].foreach = fake_foreach(task.foreach)]
                    /\ vi' = 1
                    /\ pc' = "expand_task"
                    /\ UNCHANGED <<err, errAt>>
            IN IF plugin_already_sent(task.plugin, sent_plugins)
               THEN enter /\ UNCHANGED <<sent_plugins, trace>>
               ELSE IF task.plugin \notin Plugins
               THEN Fail /\ UNCHANGED <<plan, vi, sent_plugins, trace>>
               ELSE \E ok \in BOOLEAN :
                       /\ trace' = Append(trace,
                              Command("scp_plugin", <<task.plugin>>,
                                      <<temp_dir>>, ok, ti, NoPayload))
                       /\ IF ok
                          THEN /\ sent_plugins' = Append(sent_plugins, task.plugin)
                               /\ enter
                          ELSE Fail /\ UNCHANGED <<plan, vi, sent_plugins>>
    /\ UNCHANGED <<planFile, ti, expanded, password, temp_dir, made, sent_files>>
    /\ UNCHANGED <<fsVars, leafVars, helperVars>>

\* for var in task.foreach (upset.py:140) and Upset.expand_task
\* (upset.py:142).
ExpandTask ==
    /\ pc = "expand_task"
    /\ IF vi > Len(plan[ti].foreach)
       THEN /\ ti' = ti + 1
            /\ pc' = "send_plugin"
            /\ UNCHANGED <<expanded, err, errAt>>
       ELSE LET r == expand_task(plan[ti], iteration(plan[ti].foreach, vi))
            IN /\ IF r.res = "ok"
                  THEN /\ expanded' = [alias |-> r.alias, task |-> r.task]
                       /\ pc' = "send_files"
                       /\ UNCHANGED <<err, errAt>>
                  ELSE Fail /\ UNCHANGED expanded
               /\ UNCHANGED ti
    /\ UNCHANGED <<planFile, plan, vi, password, temp_dir, made, sent_plugins,
                   sent_files, trace>>
    /\ UNCHANGED <<fsVars, leafVars, helperVars>>

\* Upset.send_files, upset.py:339-355: the copies it runs and the names it
\* records when the failAt-th copy fails (none fails for failAt = 0).
RECURSIVE send_files(_, _, _, _, _)
send_files(items, sent, log, failAt, task) ==
    IF items = <<>> THEN [res |-> "ok", sent |-> sent, log |-> log]
    ELSE LET name == Head(items)[1]
             file == Head(items)[2].v
             copy == Command("scp_file", file, create_unique_file_name(file),
                             failAt # 1, task, NoPayload)
         IN IF name \in Range(sent)
            THEN send_files(Tail(items), sent, log, failAt, task)
            ELSE IF failAt = 1
            THEN [res |-> "UpsetError", sent |-> sent, log |-> Append(log, copy)]
            ELSE send_files(Tail(items), Append(sent, name), Append(log, copy),
                            IF failAt = 0 THEN 0 ELSE failAt - 1, task)

\* self.send_files(expanded_task, ...), upset.py:149
SendFiles ==
    /\ pc = "send_files"
    /\ \E failAt \in 0..Len(expanded.task.files.v) :
          LET r == send_files(expanded.task.files.v, sent_files, <<>>, failAt, ti)
          IN /\ failAt <= Len(r.log)
             /\ sent_files' = r.sent
             /\ trace' = trace \o r.log
             /\ IF r.res = "ok"
                THEN pc' = "run_task" /\ UNCHANGED <<err, errAt>>
                ELSE Fail
    /\ UNCHANGED <<planFile, plan, ti, vi, expanded, password, temp_dir, made,
                   sent_plugins>>
    /\ UNCHANGED <<fsVars, leafVars, helperVars>>

\* Upset.run_task, upset.py:358-393, with transform_task_to_data writing the
\* remote names into the files of the task it is given: the plan's task when
\* expand_task returned it.
RunTask ==
    /\ pc = "run_task"
    /\ LET var == iteration(plan[ti].foreach, vi)
           data == transform_task_to_data(expanded.task, var)
       IN /\ expanded' = [expanded EXCEPT !.task.files = data.files]
          /\ plan' = IF expanded.alias
                     THEN [plan EXCEPT ![ti].files = data.files]
                     ELSE plan
          /\ \E ok \in BOOLEAN :
                /\ trace' = Append(trace, Command("run", <<data.plugin>>,
                                                  <<temp_dir>>, ok, ti, data))
                /\ IF ok
                   THEN /\ vi' = vi + 1
                        /\ pc' = "expand_task"
                        /\ UNCHANGED <<err, errAt>>
                   ELSE Fail /\ UNCHANGED vi
    /\ UNCHANGED <<planFile, ti, password, temp_dir, made, sent_plugins,
                   sent_files>>
    /\ UNCHANGED <<fsVars, leafVars, helperVars>>

TrySteps == {"read_plan", "getpass", "ensure_ssh_key", "mktemp", "mkdir",
             "send_lib", "send_plugin", "expand_task", "send_files", "run_task"}

\* except KeyboardInterrupt, upset.py:159-160: the user interrupts the step
\* the run is at.
Interrupt ==
    /\ pc \in TrySteps
    /\ err' = "KeyboardInterrupt"
    /\ errAt' = pc
    /\ pc' = "finally"
    /\ UNCHANGED <<planFile, plan, ti, vi, expanded, password, temp_dir, made,
                   sent_plugins, sent_files, trace>>
    /\ UNCHANGED <<fsVars, leafVars, helperVars>>

\* A finally block that removes temp_dir whatever it is.
always_removes(dir) == FALSE

\* if str(temp_dir) == str(pathlib.Path()), upset.py:163
no_temporary_directory(dir) == dir = NoPath

\* finally, upset.py:161-174: the removal of temp_dir unless it still is
\* Path(); its failure is logged.
Finally ==
    /\ pc = "finally"
    /\ IF no_temporary_directory(temp_dir)
       THEN UNCHANGED trace
       ELSE \E ok \in BOOLEAN :
               trace' = Append(trace, Command("rm", <<>>, <<temp_dir>>, ok, 0,
                                              NoPayload))
    /\ pc' = "done"
    /\ UNCHANGED <<planFile, plan, ti, vi, expanded, password, temp_dir, made,
                   sent_plugins, sent_files, err, errAt>>
    /\ UNCHANGED <<fsVars, leafVars, helperVars>>

NextRun ==
    \/ ReadPlan
    \/ GetPass
    \/ EnsureSshKey
    \/ Mktemp
    \/ Mkdir
    \/ SendLib
    \/ SendPlugin
    \/ ExpandTask
    \/ SendFiles
    \/ RunTask
    \/ Interrupt
    \/ Finally

vars == <<fsVars, runVars, leafVars, helperVars>>

\* except lib.UpsetError and except KeyboardInterrupt, upset.py:155-160:
\* whether an exception raised in the try block leaves Upset.run.
propagates(e) == e \notin {"none", "UpsetError", "KeyboardInterrupt"}

\* main, upset.py:465-470: upset.run(...) is its last statement, so the
\* process ends with status 0 when run returns and with status 1 when an
\* exception leaves it.
exit_status(e) == IF propagates(e) THEN 1 ELSE 0

SpecRun == InitRun /\ [][NextRun]_vars

\* --------------------------------------------------- Upset: the claims
Copies(kind) == {i \in DOMAIN trace : trace[i].kind = kind}

\* C2: once mktemp has succeeded, the run ends with the removal of the
\* workspace issued, whatever failed afterwards.
C2_WorkspaceRemovedOnceCreated ==
    pc = "done" /\ made => \E i \in DOMAIN trace : trace[i].kind = "rm"

\* C3: over one run every plugin name is copied to the workspace at most
\* once, however many tasks of the plan name it.
C3_PluginCopiedAtMostOnce ==
    \A i, j \in Copies("scp_plugin") : trace[i].src = trace[j].src => i = j

\* Two tasks of the plan have run the same plugin.
C3_TwoTasksOnePlugin ==
    \E i, j \in Copies("run") :
        /\ trace[i].task # trace[j].task
        /\ trace[i].src = trace[j].src
        /\ Cardinality({k \in Copies("scp_plugin") : trace[k].src = trace[i].src}) = 1

\* C4: over one run every local file path is copied to the workspace at most
\* once, however many tasks, iterations or logical names reference it.
C4_FilePathCopiedAtMostOnce ==
    \A i, j \in Copies("scp_file") : trace[i].src = trace[j].src => i = j

\* C5: when a step has failed with UpsetError the run is at its cleanup, and
\* from then on it runs no command but the removal of the workspace.
C5_FailureAbortsThePlan ==
    [][/\ err' = "UpsetError" => pc' \in {"finally", "done"}
       /\ err = "UpsetError" =>
             \A i \in DOMAIN trace' \ DOMAIN trace : trace'[i].kind = "rm"]_vars

\* A step of a task has failed while an iteration or a task was still to
\* come, and the run is over.
C5_FailedBeforeTheLastIteration ==
    /\ pc = "done"
    /\ err = "UpsetError"
    /\ errAt \in {"send_plugin", "expand_task", "send_files", "run_task"}
    /\ ti >= 1
    /\ ti < Len(plan) \/ (errAt # "send_plugin" /\ vi < Len(plan[ti].foreach))

\* The binding names the leaves and keys of a JSON value reference.
RECURSIVE LeafRefs(_)
LeafRefs(leaf) ==
    IF leaf.t = "str" THEN Refs(leaf.v)
    ELSE IF leaf.t = "list"
    THEN UNION {LeafRefs(leaf.v[i]) : i \in 1..Len(leaf.v)}
    ELSE IF leaf.t = "dict"
    THEN UNION {Refs(leaf.v[i][1]) \cup LeafRefs(leaf.v[i][2]) : i \in 1..Len(leaf.v)}
    ELSE {}

TaskRefs(task) == LeafRefs(task.variables) \cup LeafRefs(task.files)

\* The iteration at hand is past expand_task.
Expanded == pc \in {"send_files", "run_task"}

\* C8 (as stated): for every binding map, the empty one included, a task
\* that references a name the map does not have does not get past
\* expand_task, and no payload handed to a plugin has a placeholder left.
C8_MissingNameFailsForEveryBinding ==
    /\ Expanded => TaskRefs(plan[ti]) \subseteq DOMAIN plan[ti].foreach[vi]
    /\ \A i \in Copies("run") :
          LeafRefs(trace[i].payload.variables) \cup LeafRefs(trace[i].payload.files) = {}

\* C8 (amended): for every binding map that is not empty, a task that
\* references a name the map does not have does not get past expand_task, and
\* no payload of such an iteration has a placeholder left.
C8_MissingNameFailsForNonEmptyBinding ==
    /\ Expanded /\ DOMAIN plan[ti].foreach[vi] # {}
          => TaskRefs(plan[ti]) \subseteq DOMAIN plan[ti].foreach[vi]
    /\ \A i \in Copies("run") :
          DOMAIN trace[i].payload.for # {} =>
             LeafRefs(trace[i].payload.variables) \cup LeafRefs(trace[i].payload.files) = {}

\* expand_task has raised UpsetError for a binding map that is not empty and
\* lacks a name the task references.
C8_ExpansionFailedOnMissingName ==
    /\ pc = "done"
    /\ err = "UpsetError" /\ errAt = "expand_task"
    /\ DOMAIN plan[ti].foreach[vi] # {}
    /\ ~(TaskRefs(plan[ti]) \subseteq DOMAIN plan[ti].foreach[vi])

\* C9: after any number of iterations the variables and files of every task
\* of the plan equal the values read from the plan file.
C9_SourceTaskNeverModified ==
    \A i \in DOMAIN plan :
        /\ plan[i].variables = from_json(planFile.items[i]).variables
        /\ plan[i].files = from_json(planFile.items[i]).files

\* The value of key in the items of a dict.
Lookup(items, key) ==
    items[CHOOSE i \in 1..Len(items) : items[i][1] = key][2]

IsRunOf(t, c) == c.kind = "run" /\ c.task = t

\* The invocations of task t, in order.
RunsOf(t) == LET Test(c) == IsRunOf(t, c) IN SelectSeq(trace, Test)

\* C10: a task with foreach = [b1, ..., bk], k >= 1, whose iterations are
\* over has been invoked exactly k times, the i-th time with 'for' = bi, and
\* every file entry whose name and path reference no binding maps, in each
\* of the k payloads, to the remote name under which its path was copied.
C10_EveryIterationNamesTheCopiedFile ==
    \A t \in DOMAIN plan :
        LET task == from_json(planFile.items[t])
            runs == RunsOf(t)
        IN t < ti /\ Len(task.foreach) >= 1 =>
              /\ Len(runs) = Len(task.foreach)
              /\ \A i \in DOMAIN runs : runs[i].payload.for = task.foreach[i]
              /\ \A f \in DOMAIN task.files.v :
                    LET name == task.files.v[f][1]
                        path == task.files.v[f][2].v
                    IN Refs(name) \cup Refs(path) = {} =>
                          \E c \in Copies("scp_file") :
                              /\ trace[c].src = path
                              /\ trace[c].ok
                              /\ \A i \in DOMAIN runs :
                                    Lookup(runs[i].payload.files.v, name).v = trace[c].dst

\* The commands of the trace of one kind, in order.
Commands(kind) == LET Test(c) == c.kind = kind IN SelectSeq(trace, Test)

\* The foreach of task t as read from the plan file, an empty one replaced.
ForeachOf(t) ==
    LET foreach == from_json(planFile.items[t]).foreach
    IN IF Len(foreach) = 0 THEN <<EmptyMap>> ELSE foreach

\* The iterations of the tasks 1..t in plan order and foreach order, each as
\* <<task, binding>>.
RECURSIVE Iterations(_)
Iterations(t) ==
    IF t = 0 THEN <<>>
    ELSE Iterations(t - 1) \o [i \in 1..Len(ForeachOf(t)) |-> <<t, ForeachOf(t)[i]>>]

\* The invocations so far are the first iterations of the plan, in order.
RunsInOrder ==
    LET runs == Commands("run")
        all == Iterations(Len(plan))
    IN /\ Len(runs) <= Len(all)
       /\ \A k \in DOMAIN runs :
             runs[k].task = all[k][1] /\ runs[k].payload.for = all[k][2]

\* The commands of a task come after those of the tasks before it, and the
\* copy of its plugin (by this task or an earlier one) before its files and
\* invocations.
TasksInOrder ==
    \A i, j \in DOMAIN trace :
        /\ i < j /\ trace[i].task >= 1 /\ trace[j].task >= 1
              => trace[i].task <= trace[j].task
        /\ trace[j].kind \in {"scp_file", "run"} =>
              \E k \in 1..(j - 1) :
                  /\ trace[k].kind = "scp_plugin" /\ trace[k].ok
                  /\ trace[k].src = <<plan[trace[j].task].plugin>>

\* One step of the loops: expand, then send files, then invoke, then the
\* next iteration; files are copied by send_files only and the plugin is
\* invoked by run_task only, one invocation a step.
StepsInOrder ==
    /\ pc = "expand_task" /\ pc' # pc => pc' \in {"send_files", "send_plugin", "finally"}
    /\ pc = "send_files" /\ pc' # pc => pc' \in {"run_task", "finally"}
    /\ pc = "run_task" /\ pc' # pc => pc' \in {"expand_task", "finally"}
    /\ vi' # vi => (pc = "run_task" /\ vi' = vi + 1) \/ (pc = "send_plugin" /\ vi' = 1)
    /\ ti' # ti => (pc = "expand_task" /\ ti' = ti + 1) \/ (pc = "send_lib" /\ ti' = 1)
    /\ \A i \in DOMAIN trace' \ DOMAIN trace :
          /\ trace'[i].kind = "scp_file" => pc = "send_files"
          /\ trace'[i].kind = "scp_plugin" => pc = "send_plugin"
          /\ trace'[i].kind = "run" => pc = "run_task" /\ Len(trace') = Len(trace) + 1

\* C11: tasks run in plan order and the iterations of a task in foreach
\* order; the plugin of a task is sent before its first iteration; an
\* iteration expands, then sends files, then invokes; invocations follow one
\* another.
C11_PlanOrder ==
    /\ [](RunsInOrder /\ TasksInOrder)
    /\ [][StepsInOrder]_vars

\* A plan of two tasks is through, one of them with two different bindings.
C11_TwoTasksTwoIterations ==
    /\ pc = "done" /\ err = "none"
    /\ Len(plan) = 2
    /\ Len(Commands("run")) >= 3
    /\ \E t \in DOMAIN plan : Len(plan[t].foreach) = 2
                              /\ plan[t].foreach[1] # plan[t].foreach[2]

\* C12: a task whose foreach is empty or absent has, once the run is past
\* it, been invoked exactly once, with 'for' the empty map; it is never
\* invoked more than once.
C12_EmptyForeachRunsOnce ==
    \A t \in DOMAIN plan :
        Len(from_json(planFile.items[t]).foreach) = 0 =>
            /\ Len(RunsOf(t)) <= 1
            /\ \A i \in DOMAIN RunsOf(t) : RunsOf(t)[i].payload.for = EmptyMap
            /\ t < ti => Len(RunsOf(t)) = 1

\* The run is past a task without foreach and a task with an empty one.
C12_PastTasksWithoutForeach ==
    /\ pc = "done" /\ err = "none"
    /\ \E t \in DOMAIN plan : "foreach" \notin planFile.items[t].has
    /\ \E t \in DOMAIN plan : /\ "foreach" \in planFile.items[t].has
                              /\ planFile.items[t].foreach = <<>>



\* A task descriptor of the plan file lacks 'name' or 'plugin'.
LacksNameOrPlugin ==
    /\ planFile.state = "ok"
    /\ \E i \in DOMAIN planFile.items :
          ~({"name", "plugin"} \subseteq planFile.items[i].has)

\* C33: when a task descriptor lacks 'name' or 'plugin', read_plan raises
\* UpsetError (unless the user interrupts it), no task list is returned and
\* the run issues no command.
C33_DescriptorWithoutNameOrPluginFailsThePlan ==
    LacksNameOrPlugin /\ pc # "read_plan" =>
        /\ errAt = "read_plan"
        /\ err \in {"UpsetError", "KeyboardInterrupt"}
        /\ plan = <<>>
        /\ trace = <<>>

\* The half of C33 about 'name' alone.
C33_DescriptorWithoutNameFailsThePlan ==
    /\ planFile.state = "ok"
    /\ \E i \in DOMAIN planFile.items : "name" \notin planFile.items[i].has
    /\ pc # "read_plan"
    => errAt = "read_plan" /\ plan = <<>> /\ trace = <<>>

\* C34: a run that failed with an error has reported it, has run the
\* cleanup and ends the process with a status other than 0.
C34_FailedRunEndsNonZero ==
    pc = "done" /\ err = "UpsetError" => exit_status(err) # 0

\* C36: every remote file name in the payload of a plugin invocation is the
\* destination of a copy that succeeded earlier in the same run.
C36_PayloadNamesCopiedFiles ==
    \A i \in Copies("run") :
        \A f \in DOMAIN trace[i].payload.files.v :
            \E c \in Copies("scp_file") :
                /\ c < i
                /\ trace[c].ok
                /\ trace[c].dst = trace[i].payload.files.v[f][2].v

\* C36 for the tasks alone whose every iteration has bindings, so that no
\* iteration runs on the plan's own Task.
C36_PayloadNamesCopiedFilesWithBindings ==
    \A i \in Copies("run") :
        (\A v \in DOMAIN from_json(planFile.items[trace[i].task]).foreach :
            from_json(planFile.items[trace[i].task]).foreach[v] # EmptyMap)
        /\ from_json(planFile.items[trace[i].task]).foreach # <<>>
        => \A f \in DOMAIN trace[i].payload.files.v :
              \E c \in Copies("scp_file") :
                  /\ c < i
                  /\ trace[c].ok
                  /\ trace[c].dst = trace[i].payload.files.v[f][2].v

\* C39: Upset.run removes nothing but the workspace make_temporary_directory
\* returned to it; while temp_dir still is Path() no removal is issued.
C39_OnlyTheWorkspaceIsRemoved ==
    /\ \A i \in Copies("rm") :
          /\ trace[i].dst = <<Workspace>>
          /\ temp_dir = Workspace
          /\ \E j \in Copies("mkdir") : j < i /\ trace[j].ok
    /\ temp_dir = NoPath => Copies("rm") = {}

\* A run that failed or was interrupted before the workspace was known has
\* passed its finally block.
C39_EndedWithoutWorkspace ==
    /\ pc = "done"
    /\ temp_dir = NoPath
    /\ err # "none"
    /\ errAt \in {"mktemp", "mkdir"}
    /\ Copies("rm") = {}

\* ------------------------------------------- Upset: expansion of one tree
\* Upset.expand_task_leaves is called once on a tree of dicts, lists,
\* strings and numbers with a var.
LeafStrings == {<<"a">>, <<Field("u")>>, <<"f", Field("g")>>,
                <<OpenBrace, "u", CloseBrace>>, <<Positional>>}
KeyStrings == {<<"a">>, <<Field("u")>>, <<"f", Field("g")>>}

ScalarLeaves == {Str(str) : str \in LeafStrings} \cup {Num(<<"1">>)}

\* Lists and dicts of up to MaxItems scalar leaves; the keys of a dict
\* differ.
FlatLists ==
    {List(items) : items \in UNION {[1..n -> ScalarLeaves] : n \in 0..MaxItems}}

FlatDicts ==
    {Dict(items) :
        items \in {d \in UNION {[1..n -> KeyStrings \X ScalarLeaves] :
                                  n \in 0..MaxItems} :
                      \A i, j \in 1..Len(d) : i # j => d[i][1] # d[j][1]}}

\* A list and a dict that hold a list or a dict next to a string.
NestedTrees ==
    LET inner == {List(<<Str(<<Field("u")>>)>>),
                  Dict(<<<<<<Field("u")>>, Num(<<"1">>)>>>>),
                  Dict(<<<<<<Field("u")>>, Num(<<"1">>)>>,
                         <<<<"a">>, Str(<<"a">>)>>>>)}
    IN {List(<<c, Str(str)>>) : c \in inner, str \in LeafStrings}
       \cup {Dict(<<<<key, c>>, <<<<"a">>, Str(<<Field("g")>>)>>>>) :
                 c \in inner, key \in KeyStrings \ {<<"a">>}}

Trees == ScalarLeaves \cup FlatLists \cup FlatDicts \cup NestedTrees

\* The vars: none, one for u, and two for u and g with different and with
\* equal values.
Bindings == {EmptyMap, "u" :> <<"a">>,
             ("u" :> <<"a">>) @@ ("g" :> <<"b">>),
             ("u" :> <<"f", "b">>) @@ ("g" :> <<"b">>)}

NotCalled == [t |-> "none", v |-> <<>>]

InitExpand ==
    /\ tree \in Trees
    /\ bindings \in Bindings
    /\ returned = NotCalled
    /\ FsIdle
    /\ RunIdle
    /\ HelperIdle

\* expand_task_leaves(tree, bindings) is called.
ExpandLeaves ==
    /\ returned = NotCalled
    /\ returned' = expand_task_leaves(tree, bindings)
    /\ UNCHANGED <<tree, bindings>>
    /\ UNCHANGED <<fsVars, runVars, helperVars>>

NextExpand == ExpandLeaves

SpecExpand == InitExpand /\ [][NextExpand]_vars

\* The strings of a tree: its string leaves and the keys of its dicts.
RECURSIVE TreeStrings(_)
TreeStrings(leaf) ==
    IF leaf.t = "str" THEN {leaf.v}
    ELSE IF leaf.t = "list"
    THEN UNION {TreeStrings(leaf.v[i]) : i \in 1..Len(leaf.v)}
    ELSE IF leaf.t = "dict"
    THEN UNION {{leaf.v[i][1]} \cup TreeStrings(leaf.v[i][2]) :
                  i \in 1..Len(leaf.v)}
    ELSE {}

\* The tokens found in the strings of the tree given.
TreeTokens == UNION {Range(str) : str \in TreeStrings(tree)}

\* What a string of the tree is to become: every field replaced by the
\* value of its name, every other token as it is.
FieldsReplaced(str) ==
    LET Piece(c) == IF \E n \in DOMAIN bindings : c = Field(n)
                    THEN bindings[CHOOSE n \in DOMAIN bindings : c = Field(n)]
                    ELSE IF c = OpenBrace THEN <<"{">>
                    ELSE IF c = CloseBrace THEN <<"}">>
                    ELSE <<c>>
        Pieces[i \in 0..Len(str)] ==
            IF i = 0 THEN <<>> ELSE Pieces[i - 1] \o Piece(str[i])
    IN Pieces[Len(str)]

\* out has the shape of leaf (the same nesting, lists of the same length,
\* dicts with as many items, in the same order), every string leaf and every
\* key of leaf is formatted in out and every other leaf is the same.
RECURSIVE SameShapeFormatted(_, _)
SameShapeFormatted(leaf, out) ==
    IF leaf.t = "str" THEN out = Str(FieldsReplaced(leaf.v))
    ELSE IF leaf.t = "list"
    THEN /\ out.t = "list" /\ Len(out.v) = Len(leaf.v)
         /\ \A i \in 1..Len(leaf.v) : SameShapeFormatted(leaf.v[i], out.v[i])
    ELSE IF leaf.t = "dict"
    THEN /\ out.t = "dict" /\ Len(out.v) = Len(leaf.v)
         /\ \A i \in 1..Len(leaf.v) :
               /\ out.v[i][1] = FieldsReplaced(leaf.v[i][1])
               /\ SameShapeFormatted(leaf.v[i][2], out.v[i][2])
    ELSE out = leaf

RECURSIVE KeysStayDistinct(_)
KeysStayDistinct(leaf) ==
    IF leaf.t = "list"
    THEN \A i \in 1..Len(leaf.v) : KeysStayDistinct(leaf.v[i])
    ELSE IF leaf.t = "dict"
    THEN /\ \A i \in 1..Len(leaf.v) : KeysStayDistinct(leaf.v[i][2])
         /\ \A i, j \in 1..Len(leaf.v) :
               i # j => FieldsReplaced(leaf.v[i][1])
                           # FieldsReplaced(leaf.v[j][1])
    ELSE TRUE

join_space(parts) == Join(parts, <<" ">>)

\* The text is returned as it is (no encoding at all).
not_encoded(s) == s

\* base64.b64encode(...).decode(), lib.py:521-523 and 527: every character
\* of the text becomes a character of the encoded text, which is no
\* character of the clear text (the grouping of three bytes into four
\* characters of the base64 alphabet is not modelled).
b64encode(s) == [k \in 1..Len(s) |-> "b64:" \o s[k]]

\* getpass.getuser() and socket.gethostname(), lib.py:549-554
LocalUser == <<"u">>
LocalHost == <<"h">>

\* Sys.build_command, lib.py:532-559
build_command(command_parts, user, host, ssh_key, sudo) ==
    LET u == IF user = <<>> THEN LocalUser ELSE user
        h == IF host = <<>> THEN LocalHost ELSE host
    IN IF h = LocalHost /\ u = LocalUser
       THEN IF sudo
            THEN << <<"s", "u", "d", "o">>, <<"-", "-">> >> \o command_parts
            ELSE << <<"b", "a", "s", "h">>, <<"-", "c">>,
                    join_space(command_parts) >>
       ELSE << <<"s", "s", "h">>, <<"-", "i">>, ssh_key,
               u \o <<"@">> \o h >> \o command_parts

\* 'echo ' and ' | base64 -d | $SHELL', lib.py:527-528
EchoWord == <<"e", "c", "h", "o", " ">>
DecodeAndRun == <<" ", "|", " ", "b", "a", "s", "e", "6", "4", " ", "-", "d", " ", "|", " ", "$", "S", "H", "E", "L", "L">>

\* f'echo "{password}" | sudo {run_as} -S --prompt= -- {command}\n',
\* lib.py:514-523
sudo_line(command_parts, passwd, run_as) ==
    LET as == IF run_as = <<"r", "o", "o", "t">> THEN <<>>
              ELSE <<"-", "u", " ">> \o run_as
    IN EchoWord \o <<"\"">> \o passwd \o <<"\"">>
       \o <<" ", "|", " ", "s", "u", "d", "o", " ">> \o as
       \o <<" ", "-", "S", " ", "-", "-", "p", "r", "o", "m", "p", "t", "=", " ", "-", "-", " ">>
       \o join_space(command_parts) \o <<"\n">>

\* Sys.build_sudo_command, lib.py:474-529
build_sudo_command(command_parts, passwd, user, host, ssh_key, run_as) ==
    build_command(
        << EchoWord \o b64encode(sudo_line(command_parts, passwd, run_as))
           \o DecodeAndRun >>,
        user, host, ssh_key, FALSE)

\* Files whose remote names are asked for: absolute and relative ones, and
\* file names that hold the separator of the remote name themselves.
Files ==
    { <<"/", "a", "/", "b">>, <<"/", "a", "_", "_", "_", "b">>,
      <<"a", "/", "b">>, <<"/", "w", "/", "a", "/", "b">>,
      <<"/", "a">>, <<"b">>, <<"/", "a", "/", "b", "/">>,
      <<"/", "a", "_", "/", "b">>, <<"/", "a", "/", "_", "b">>,
      <<"/", "a", "/", "b", ".", "c">>, <<"/", "a", "b">>,
      <<"w", "_", "_", "_", "a">> }

CommandParts == { << <<"r", "m">>, <<"x">> >>, << <<"l", "s">> >> }
Passwords == { <<"p", "w">>, <<"q">>, <<"u">> }
Users == { <<>>, <<"u">>, <<"v">> }
Hosts == { <<>>, <<"h">>, <<"g">> }
SshKeys == { <<".">>, <<"k">> }
RunAs == { <<"r", "o", "o", "t">>, <<"v">> }

\* What the caller alone chooses of a privileged command: the command, the
\* password and the user to run it as.
Secrets == [command_parts : CommandParts, password : Passwords, run_as : RunAs]

InitHelper ==
    /\ HelperIdle
    /\ FsIdle
    /\ RunIdle
    /\ LeafIdle

\* Helper.create_unique_file_name is called for two files.
CreateUniqueFileName ==
    /\ call = NoCall
    /\ \E f1 \in Files, f2 \in Files :
          call' = [fn |-> "create_unique_file_name",
                   args |-> << [file |-> f1], [file |-> f2] >>,
                   values |-> << create_unique_file_name(f1),
                                 create_unique_file_name(f2) >>]
    /\ UNCHANGED <<fsVars, runVars, leafVars>>

\* Sys.build_sudo_command is called twice for the same target.
BuildSudoCommand ==
    /\ call = NoCall
    /\ \E s1 \in Secrets, s2 \in Secrets, user \in Users, host \in Hosts, ssh_key \in SshKeys :
          LET a1 == [command_parts |-> s1.command_parts, password |-> s1.password,
                     user |-> user, host |-> host, ssh_key |-> ssh_key,
                     run_as |-> s1.run_as]
              a2 == [command_parts |-> s2.command_parts, password |-> s2.password,
                     user |-> user, host |-> host, ssh_key |-> ssh_key,
                     run_as |-> s2.run_as]
          IN call' = [fn |-> "build_sudo_command",
                      args |-> <<a1, a2>>,
                      values |-> << build_sudo_command(a1.command_parts, a1.password, a1.user, a1.host, a1.ssh_key, a1.run_as),
                                    build_sudo_command(a2.command_parts, a2.password, a2.user, a2.host, a2.ssh_key, a2.run_as) >>]
    /\ UNCHANGED <<fsVars, runVars, leafVars>>

NextHelper ==
    \/ CreateUniqueFileName
    \/ BuildSudoCommand

SpecHelper == InitHelper /\ [][NextHelper]_vars

\* ------------------------------------------------- lib: claims on helpers

\* C31: create_unique_file_name gives the same remote name for the same
\* resolved path, and different remote names for paths whose sequences of
\* segments differ.
C31_UniqueNamesAreInjective ==
    call.fn = "create_unique_file_name" =>
        LET same == ResolvedParts(call.args[1].file) = ResolvedParts(call.args[2].file)
        IN same <=> call.values[1] = call.values[2]

\* The deterministic half of C31 alone: the same resolved path always gets
\* the same remote name.
C31_SamePathSameName ==
    call.fn = "create_unique_file_name" =>
        (ResolvedParts(call.args[1].file) = ResolvedParts(call.args[2].file)
            => call.values[1] = call.values[2])

\* The characters of clear text: everything but the encoded characters.
Alphabet ==
    { "a", "b", "c", "d", "e", "g", "h", "i", "k", "l", "m", "o", "p", "q",
      "r", "s", "t", "u", "v", "w", "x", "6", "4", "S", "H", "E", "L", " ",
      "|", "-", "$", "=", "@", ".", "\"", "\n", "/", "_" }

ClearText(str) == SelectSeq(str, LAMBDA t : t \in Alphabet)

\* needle is a contiguous part of str.
Occurs(needle, str) ==
    \E k \in 0..(Len(str) - Len(needle)) :
        \A j \in 1..Len(needle) : str[k + j] = needle[j]

\* The argv around an empty blob: it depends on the target alone.
Wrapper(a) ==
    LET target == IF a.user \in {<<>>, LocalUser} /\ a.host \in {<<>>, LocalHost}
                  THEN << <<"b", "a", "s", "h">>, <<"-", "c">> >>
                  ELSE << <<"s", "s", "h">>, <<"-", "i">>, a.ssh_key,
                          (IF a.user = <<>> THEN LocalUser ELSE a.user) \o <<"@">>
                          \o (IF a.host = <<>> THEN LocalHost ELSE a.host) >>
    IN target \o << EchoWord \o DecodeAndRun >>

====
